---- MODULE Spec2Model ----
(***************************************************************************)
(* Calendar anchor and month-length engine of Quantum-Calendar.            *)
(*                                                                         *)
(*   backend/astronomy/sun.py   get_event_with_fallback  (twilight tiers)  *)
(*   backend/astronomy/moon.py  find_first_dawn_after, count_dawn_cycles   *)
(*                                                                         *)
(* The astral library (dawn, dusk, sunrise, sunset) is the environment: a  *)
(* deterministic function of (function, latitude, date, depression) whose  *)
(* values are unknown.  It is modelled by two memo tables that are filled  *)
(* the first time a query is made and read back on every later query:      *)
(* sky[q] says whether the call returns (TRUE) or raises (FALSE), when[q]  *)
(* is the instant it returns.                                              *)
(*                                                                         *)
(* Latitudes are fixed-point numbers, Degree units to one degree, so that  *)
(* fractional latitudes (64.15) exist next to whole ones.  Instants are    *)
(* integers on the UTC time line, DayLen of them to a civil day; a civil   *)
(* date is the day number of the local wall clock (instant + tzoff).       *)
(***************************************************************************)
EXTENDS Integers, Sequences, FiniteSets, TLC

VARIABLES
    sky,           \* astral: query -> TRUE (returns) / FALSE (raises), as asked so far
    when,          \* astral: query -> instant returned, as observed so far
    lat,           \* requested latitude of the location, in 1/Degree degrees
    tzoff,         \* UTC offset of the location's time zone, in instants
    rpc,           \* get_event_with_fallback: position in the function
    event_type,    \* get_event_with_fallback: argument event_type
    date_,         \* get_event_with_fallback: argument date_
    migrated_lat,  \* get_event_with_fallback: local migrated_lat
    ret,           \* get_event_with_fallback: returned <<event, tag>>
    caller,        \* who waits for get_event_with_fallback to return
    trail,         \* history: latitudes retried by the running call, in order
    seen,          \* history: <<event_type, lat, date_>> -> first result returned
    ncalls,        \* number of top-level calls made so far
    fpc,           \* find_first_dawn_after: position in the function
    dt_utc,        \* find_first_dawn_after: argument dt_utc
    search_date,   \* find_first_dawn_after: local search_date
    i,             \* find_first_dawn_after: loop variable i
    fret,          \* find_first_dawn_after: returned <<dawn, tag>>
    probes,        \* history: <<candidate_date, dawn, tag>> of each turn of its loop
    cpc,           \* count_dawn_cycles: position in the function
    start_dawn,    \* count_dawn_cycles: argument start_dawn
    end_dawn,      \* count_dawn_cycles: argument end_dawn
    dawns,         \* count_dawn_cycles: local dawns
    current,       \* count_dawn_cycles: local current
    cret,          \* count_dawn_cycles: returned count
    cprobes,       \* history: <<next_date, next_dawn>> of each turn of its loop
    mpc,             \* print_today_moon_events: position in the function
    prev_full,       \* print_today_moon_events: local prev_full
    next_full,       \* print_today_moon_events: local next_full
    dawn_after_prev, \* print_today_moon_events: local dawn_after_prev
    dawn_after_next, \* print_today_moon_events: local dawn_after_next
    days_in_month,   \* print_today_moon_events: local days_in_month (None: not counted)
    new_years_days, \* year.py: global new_years_days (None until loaded)
    full_moon_times, \* year.py: global full_moon_times (None until loaded)
    now_utc, \* find_prev_next_new_year: argument now_utc
    bracket, \* find_prev_next_new_year: returned <<prev, nxt>>
    range, \* get_full_moons_in_range: arguments <<start, end>>
    moons, \* get_full_moons_in_range: returned list
    first_dawn, \* find_first_dawn_after as asked so far: instant -> returned <<dawn, tag>>
    cycles, \* count_dawn_cycles as asked so far: <<start, end>> -> returned count
    bpc, \* the builders: position in the function
    start_year, \* get_multi_year_calendar_data: argument start_year
    end_year, \* get_multi_year_calendar_data: argument end_year
    anchors, \* get_multi_year_calendar_data: local anchors (after the filter)
    bi, \* get_multi_year_calendar_data: index i of the outer loop
    year_moons, \* get_multi_year_calendar_data: local moons of the year in work
    months, \* the builders: local months
    bj, \* the builders: index of the loop over the full moons
    result, \* the builders: local result, returned at the end
    current_day, \* currentDay of select_location
    month_num, \* monthNum of select_location
    csv, \* the rows of the two files, as read so far
    glob, \* the table globals of backend.data, year.py and moon.py
    data_loaded, \* _DATA_LOADED of app.py
    loads, \* reads of each file so far
    req, \* the requests in progress
    wrote, \* the request whose last step assigned shared state
    month_next_dawn, \* the closing dawn of the month built last (years.py:29-31, calendar.py:67)
    upc, \* get_sun_events_for_date: position in the function
    sun_date, \* get_sun_events_for_date: argument date_
    dawn_time, \* get_sun_events_for_date: local dawn_time
    dawn_tag, \* get_sun_events_for_date: local dawn_tag
    sunrise_time, \* get_sun_events_for_date: local sunrise_time
    sunset_time, \* get_sun_events_for_date: local sunset_time
    dusk_time, \* get_sun_events_for_date: local dusk_time
    dusk_tag, \* get_sun_events_for_date: local dusk_tag
    dawn_time2, \* get_sun_events_for_date: local dawn_time2
    iso_list, \* get_sun_events_for_date: local iso_list
    attempt, \* get_sun_events_for_date: loop variable attempt
    arr, \* get_sun_events_for_date: local arr (None while unbound)
    illum1, \* get_sun_events_for_date: local illum1
    illum2, \* get_sun_events_for_date: local illum2
    moon_line, \* get_sun_events_for_date: the Moon % line appended to lines
    json_dict, \* get_sun_events_for_date: returned json_dict (None before the first return)
    tries, \* history: outcome of each requests.get of the running call
    slept \* history: arguments of time.sleep in the running call

rvars == <<rpc, event_type, date_, migrated_lat, ret, caller, trail>>
fvars == <<fpc, dt_utc, search_date, i, fret, probes>>
cvars == <<cpc, start_dawn, end_dawn, dawns, current, cret, cprobes>>
mvars == <<mpc, prev_full, next_full, dawn_after_prev, dawn_after_next, days_in_month>>
yvars == <<new_years_days, full_moon_times, now_utc, bracket, range, moons>>
bvars == <<first_dawn, cycles, bpc, start_year, end_year, anchors, bi, year_moons, months, bj, result>>
svars == <<current_day, month_num>>
pvars == <<csv, glob, data_loaded, loads, req, wrote>>
lvars == <<month_next_dawn>>
uvars == <<upc, sun_date, dawn_time, dawn_tag, sunrise_time, sunset_time, dusk_time, dusk_tag, dawn_time2, iso_list, attempt, arr, illum1, illum2, moon_line, json_dict, tries, slept>>

vars == <<sky, when, lat, tzoff, rvars, seen, ncalls, fvars, cvars, mvars, yvars, bvars, svars, pvars, lvars, uvars>>

---------------------------------------------------------------------------
(* Bounds of the model *)

Degree == 2          \* fixed-point units per degree of latitude
MaxLat == 2          \* requested latitudes range over -MaxLat..MaxLat units
DayLen == 2          \* instants per civil day
MaxCalls == 3        \* top-level calls per behaviour
MaxTrail == 3        \* retried latitudes recorded per call (the loop itself is not cut)
MaxSpan == 2         \* count_dawn_cycles is called with dawns at most MaxSpan days apart

Lats == (0 - MaxLat)..MaxLat
Kinds == {"dawn", "dusk"}
CallDates == {0, 1}
TzOffsets == {0, 1}
\* Python None, for values that are otherwise tuples (events, datetimes)
None == <<>>

Abs(x) == IF x < 0 THEN 0 - x ELSE x

---------------------------------------------------------------------------
(* The astral primitives, as a lazily discovered deterministic function *)

\* dawn()/dusk()/sunrise()/sunset() either return a datetime or raise.
Answers(q) == IF q \in DOMAIN sky THEN {sky[q]} ELSE BOOLEAN

Learn(q, ok) == IF q \in DOMAIN sky THEN sky ELSE sky @@ (q :> ok)

\* The local civil date of an aware datetime: .astimezone(local_tz).date()
LocalDate(t, off) == (t + off) \div DayLen

\* Instants astral may return for civil date d: the date itself and one
\* instant into each neighbouring date (astral computes the event on the UTC
\* date and converts to the zone afterwards, so the local date can be off).
Window(d, off) == { t \in (d * DayLen - 1 - off)..((d + 1) * DayLen - off) : TRUE }

---------------------------------------------------------------------------
(* get_event_with_fallback, sun.py:108-182 *)

\* depression passed by the try block at each position (sun.py:119,124,129)
Depression(pc) == CASE pc = "tier18" -> 18 [] pc = "tier12" -> 12 [] pc = "tier6" -> 6

\* tag returned by each try block (sun.py:120,125,130)
TierTag(dep) == CASE dep = 18 -> "astronomical" [] dep = 12 -> "nautical" [] dep = 6 -> "civil"

NextTierSkipsNautical(pc) == CASE pc = "tier18" -> "tier6" [] pc = "tier12" -> "tier6" [] pc = "tier6" -> "geo"

\* the try block entered after one raises (sun.py:121-133)
NextTier(pc) == CASE pc = "tier18" -> "tier12" [] pc = "tier12" -> "tier6" [] pc = "tier6" -> "geo"

\* sunrise for dawn, sunset for dusk (sun.py:134-135, 166-167)
GeoFn(kind) == IF kind = "dawn" THEN "sunrise" ELSE "sunset"

\* a warm start from the latitude of the event returned last
MigrationStartWarm == IF ret[1] = None THEN lat ELSE ret[1][2]

\* migrated_lat = lat (sun.py:139, 171)
MigrationStart == lat

\* migrated_lat - 1 if migrated_lat > 0 else migrated_lat + 1 (sun.py:141, 173)
Nudge(m) == IF m > 0 THEN m - Degree ELSE m + Degree

RetryDepressionNautical == Depression("tier12")

\* depression of the retry at a migrated latitude (sun.py:144, 176)
RetryDepression == 18

Record(tr, m) == IF Len(tr) < MaxTrail THEN Append(tr, m) ELSE tr

\* one of the three twilight try blocks
TryTier ==
    /\ rpc \in {"tier18", "tier12", "tier6"}
    /\ LET dep == Depression(rpc)
           q == <<event_type, lat, date_, dep>>
       IN \E ok \in Answers(q) :
            /\ sky' = Learn(q, ok)
            /\ IF ok
                 THEN /\ ret' = <<q, TierTag(dep)>>
                      /\ rpc' = "ret"
                 ELSE /\ rpc' = NextTier(rpc)
                      /\ UNCHANGED ret
    /\ UNCHANGED <<when, lat, tzoff, event_type, date_, migrated_lat, caller,
                   trail, seen, ncalls, fvars, cvars>>
    /\ UNCHANGED mvars
    /\ UNCHANGED yvars
    /\ UNCHANGED bvars
    /\ UNCHANGED svars
    /\ UNCHANGED pvars
    /\ UNCHANGED lvars
    /\ UNCHANGED uvars

\* the sunrise/sunset try block; falling out of it starts the migration
TryGeometric ==
    /\ rpc = "geo"
    /\ LET q == <<GeoFn(event_type), lat, date_, 0>>
       IN \E ok \in Answers(q) :
            /\ sky' = Learn(q, ok)
            /\ IF ok
                 THEN /\ ret' = <<q, GeoFn(event_type)>>
                      /\ rpc' = "ret"
                      /\ UNCHANGED migrated_lat
                 ELSE /\ migrated_lat' = MigrationStart
                      /\ rpc' = "migrate"
                      /\ UNCHANGED ret
    /\ UNCHANGED <<when, lat, tzoff, event_type, date_, caller, trail, seen, ncalls,
                   fvars, cvars>>
    /\ UNCHANGED mvars
    /\ UNCHANGED yvars
    /\ UNCHANGED bvars
    /\ UNCHANGED svars
    /\ UNCHANGED pvars
    /\ UNCHANGED lvars
    /\ UNCHANGED uvars

\* one turn of `while abs(migrated_lat) > 0`, or the return after the loop
MigrateStep ==
    /\ rpc = "migrate"
    /\ IF Abs(migrated_lat) > 0
         THEN LET m == Nudge(migrated_lat)
                  q == <<event_type, m, date_, RetryDepression>>
              IN \E ok \in Answers(q) :
                   /\ sky' = Learn(q, ok)
                   /\ migrated_lat' = m
                   /\ trail' = Record(trail, m)
                   /\ IF ok
                        THEN /\ ret' = <<q, "migrated">>
                             /\ rpc' = "ret"
                        ELSE /\ rpc' = "migrate"
                             /\ UNCHANGED ret
         ELSE /\ ret' = <<None, "not_found">>
              /\ rpc' = "ret"
              /\ UNCHANGED <<sky, migrated_lat, trail>>
    /\ UNCHANGED <<when, lat, tzoff, event_type, date_, caller, seen, ncalls,
                   fvars, cvars>>
    /\ UNCHANGED mvars
    /\ UNCHANGED yvars
    /\ UNCHANGED bvars
    /\ UNCHANGED svars
    /\ UNCHANGED pvars
    /\ UNCHANGED lvars
    /\ UNCHANGED uvars

\* entry of the function: the arguments are bound, the first try block is next
Enter(kind, d, who) ==
    /\ rpc = "idle"
    /\ event_type' = kind
    /\ date_' = d
    /\ rpc' = "tier18"
    /\ caller' = who
    /\ trail' = <<>>

Remember(key, r) == IF key \in DOMAIN seen THEN seen ELSE seen @@ (key :> r)

\* a direct call, as made by get_sun_events_for_date (sun.py:8, 11, 47)
CallResolve ==
    /\ caller = "none"
    /\ ncalls < MaxCalls
    /\ \E kind \in Kinds, d \in CallDates : Enter(kind, d, "top")
    /\ ncalls' = ncalls + 1
    /\ UNCHANGED <<sky, when, lat, tzoff, migrated_lat, ret, seen, fvars, cvars>>
    /\ UNCHANGED mvars
    /\ UNCHANGED yvars
    /\ UNCHANGED bvars
    /\ UNCHANGED svars
    /\ UNCHANGED pvars
    /\ UNCHANGED lvars
    /\ UNCHANGED uvars

ReturnTop ==
    /\ rpc = "ret"
    /\ caller = "top"
    /\ rpc' = "idle"
    /\ caller' = "none"
    /\ seen' = Remember(<<event_type, lat, date_>>, ret)
    /\ UNCHANGED <<sky, when, lat, tzoff, event_type, date_, migrated_lat, ret,
                   trail, ncalls, fvars, cvars>>
    /\ UNCHANGED mvars
    /\ UNCHANGED yvars
    /\ UNCHANGED bvars
    /\ UNCHANGED svars
    /\ UNCHANGED pvars
    /\ UNCHANGED lvars
    /\ UNCHANGED uvars


---------------------------------------------------------------------------
(* find_first_dawn_after, moon.py:18-31 *)

\* range(0, 10): the number of dates probed (moon.py:25)
Horizon == 10

\* the instant of an event astral returned (fixed the first time it is read)
Times(q) == IF q \in DOMAIN when THEN {when[q]} ELSE Window(q[3], tzoff)

Observe(q, t) == IF q \in DOMAIN when THEN when ELSE when @@ (q :> t)

FirstInstants == 0..(DayLen - 1)

\* A datetime value: None, or <<t>> for the aware datetime of instant t.
At(t) == <<t>>

IsAfterOrAt(dawn, dt) == dawn[1] >= dt

\* dawn > dt_local (moon.py:29); aware datetimes compare by instant
IsAfter(dawn, dt) == dawn[1] > dt

\* candidate_date = search_date + timedelta(days=i) (moon.py:26)
CandidateDate(sd, k) == sd + k

CallFirst ==
    /\ caller = "none"
    /\ fpc = "idle"
    /\ ncalls < MaxCalls
    /\ \E dt \in FirstInstants :
         /\ dt_utc' = dt
         /\ search_date' = LocalDate(dt, tzoff)
    /\ i' = 0
    /\ fpc' = "loop"
    /\ probes' = <<>>
    /\ ncalls' = ncalls + 1
    /\ UNCHANGED <<sky, when, lat, tzoff, rvars, seen, fret, cvars>>
    /\ UNCHANGED mvars
    /\ UNCHANGED yvars
    /\ UNCHANGED bvars
    /\ UNCHANGED svars
    /\ UNCHANGED pvars
    /\ UNCHANGED lvars
    /\ UNCHANGED uvars

\* the head of `for i in range(0, 10)` and the call in its body, or the
\* return after the loop
FirstProbe ==
    /\ fpc = "loop"
    /\ IF i < Horizon
         THEN /\ Enter("dawn", CandidateDate(search_date, i), "first")
              /\ fpc' = "wait"
              /\ UNCHANGED fret
         ELSE /\ fret' = <<None, "not_found">>
              /\ fpc' = "done"
              /\ UNCHANGED <<rpc, event_type, date_, caller, trail>>
    /\ UNCHANGED <<sky, when, lat, tzoff, migrated_lat, ret, seen, ncalls,
                   dt_utc, search_date, i, probes, cvars>>
    /\ UNCHANGED mvars
    /\ UNCHANGED yvars
    /\ UNCHANGED bvars
    /\ UNCHANGED svars
    /\ UNCHANGED pvars
    /\ UNCHANGED lvars
    /\ UNCHANGED uvars

\* the two tests on the value the call returned
FirstCheck ==
    /\ fpc = "wait"
    /\ rpc = "ret"
    /\ caller = "first"
    /\ rpc' = "idle"
    /\ caller' = "none"
    /\ IF ret[1] # None
         THEN \E t \in Times(ret[1]) :
                /\ when' = Observe(ret[1], t)
                /\ probes' = Append(probes, <<date_, At(t), ret[2]>>)
                /\ IF IsAfter(At(t), dt_utc)
                     THEN /\ fret' = <<At(t), ret[2]>>
                          /\ fpc' = "done"
                          /\ UNCHANGED i
                     ELSE /\ i' = i + 1
                          /\ fpc' = "loop"
                          /\ UNCHANGED fret
         ELSE /\ probes' = Append(probes, <<date_, None, ret[2]>>)
              /\ i' = i + 1
              /\ fpc' = "loop"
              /\ UNCHANGED <<when, fret>>
    /\ UNCHANGED <<sky, lat, tzoff, event_type, date_, migrated_lat, ret, trail,
                   seen, ncalls, dt_utc, search_date, cvars>>
    /\ UNCHANGED mvars
    /\ UNCHANGED yvars
    /\ UNCHANGED bvars
    /\ UNCHANGED svars
    /\ UNCHANGED pvars
    /\ UNCHANGED lvars
    /\ UNCHANGED uvars

---------------------------------------------------------------------------
(* count_dawn_cycles, moon.py:33-47 *)

MaxDawns == MaxSpan + 3

StartInstants == 0..(DayLen - 1)
EndInstants(s) == s..(s + MaxSpan * DayLen)

\* next_date = (current + timedelta(days=1)).date() (moon.py:38)
NextDate(cur, off) == LocalDate(cur, off) + 1

StopsOnlyUnresolved(next_dawn, e) == next_dawn = None

\* not next_dawn or next_dawn > end_dawn (moon.py:40)
StopsAt(next_dawn, e) == next_dawn = None \/ next_dawn[1] > e

ClosedAlways(ds, e) == Append(ds, e)

\* if dawns[-1] < end_dawn: dawns.append(end_dawn) (moon.py:45-46)
Closed(ds, e) == IF ds[Len(ds)] < e THEN Append(ds, e) ELSE ds

Grow(ds, t) == IF Len(ds) < MaxDawns THEN Append(ds, t) ELSE ds

CallCount ==
    /\ caller = "none"
    /\ cpc = "idle"
    /\ ncalls < MaxCalls
    /\ \E s \in StartInstants : \E e \in EndInstants(s) :
         /\ start_dawn' = s
         /\ end_dawn' = e
         /\ dawns' = <<s>>
         /\ current' = s
    /\ cpc' = "loop"
    /\ cprobes' = <<>>
    /\ ncalls' = ncalls + 1
    /\ UNCHANGED <<sky, when, lat, tzoff, rvars, seen, fvars, cret>>
    /\ UNCHANGED mvars
    /\ UNCHANGED yvars
    /\ UNCHANGED bvars
    /\ UNCHANGED svars
    /\ UNCHANGED pvars
    /\ UNCHANGED lvars
    /\ UNCHANGED uvars

\* the first two lines of the body of `while True`
CountProbe ==
    /\ cpc = "loop"
    /\ Enter("dawn", NextDate(current, tzoff), "count")
    /\ cpc' = "wait"
    /\ UNCHANGED <<sky, when, lat, tzoff, migrated_lat, ret, seen, ncalls, fvars,
                   start_dawn, end_dawn, dawns, current, cret, cprobes>>
    /\ UNCHANGED mvars
    /\ UNCHANGED yvars
    /\ UNCHANGED bvars
    /\ UNCHANGED svars
    /\ UNCHANGED pvars
    /\ UNCHANGED lvars
    /\ UNCHANGED uvars

\* the rest of the body; leaving the loop runs the function to its return
CountCheck ==
    /\ cpc = "wait"
    /\ rpc = "ret"
    /\ caller = "count"
    /\ rpc' = "idle"
    /\ caller' = "none"
    /\ \E next_dawn \in (IF ret[1] = None THEN {None}
                          ELSE {At(t) : t \in Times(ret[1])}) :
         /\ when' = (IF next_dawn = None THEN when ELSE Observe(ret[1], next_dawn[1]))
         /\ cprobes' = Grow(cprobes, <<date_, next_dawn>>)
         /\ IF StopsAt(next_dawn, end_dawn)
              THEN /\ dawns' = Closed(dawns, end_dawn)
                   /\ cret' = Len(dawns') - 1
                   /\ cpc' = "done"
                   /\ UNCHANGED current
              ELSE /\ dawns' = Grow(dawns, next_dawn[1])
                   /\ current' = next_dawn[1]
                   /\ cpc' = "loop"
                   /\ UNCHANGED cret
    /\ UNCHANGED <<sky, lat, tzoff, event_type, date_, migrated_lat, ret, trail,
                   seen, ncalls, fvars, start_dawn, end_dawn>>
    /\ UNCHANGED mvars
    /\ UNCHANGED yvars
    /\ UNCHANGED bvars
    /\ UNCHANGED svars
    /\ UNCHANGED pvars
    /\ UNCHANGED lvars
    /\ UNCHANGED uvars

---------------------------------------------------------------------------
(* The month of today: print_today_moon_events, moon.py:49-76 (the same
   sequence of calls as test_location and select_location) *)

MonthDays == 2       \* consecutive full moons are MonthDays to MonthDays + 1 days apart

\* the distance of two consecutive entries of the full-moon table
MoonGaps == (MonthDays * DayLen)..((MonthDays + 1) * DayLen)

\* entry of find_first_dawn_after with argument dt (moon.py:18-24)
BeginFirst(dt) ==
    /\ dt_utc' = dt
    /\ search_date' = LocalDate(dt, tzoff)
    /\ i' = 0
    /\ fpc' = "loop"
    /\ probes' = <<>>

\* entry of count_dawn_cycles with arguments s, e (moon.py:33-36)
BeginCount(s, e) ==
    /\ start_dawn' = s
    /\ end_dawn' = e
    /\ dawns' = <<s>>
    /\ current' = s
    /\ cpc' = "loop"
    /\ cprobes' = <<>>

\* An int value where None is possible too: <<n>>
Num(n) == <<n>>

\* prev_full, next_full = find_prev_next_full_moon(now_utc), then the call
\* find_first_dawn_after(prev_full, ...)
MonthBegin ==
    /\ mpc = "idle"
    /\ caller = "none"
    /\ fpc = "idle"
    /\ \E m \in FirstInstants, g \in MoonGaps :
         /\ prev_full' = m
         /\ next_full' = m + g
         /\ BeginFirst(m)
    /\ mpc' = "prev"
    /\ UNCHANGED <<sky, when, lat, tzoff, rvars, seen, ncalls, fret, cvars,
                   dawn_after_prev, dawn_after_next, days_in_month>>
    /\ UNCHANGED yvars
    /\ UNCHANGED bvars
    /\ UNCHANGED svars
    /\ UNCHANGED pvars
    /\ UNCHANGED lvars
    /\ UNCHANGED uvars

\* dawn_after_prev is bound; the call find_first_dawn_after(next_full, ...)
MonthAfterPrev ==
    /\ mpc = "prev"
    /\ fpc = "done"
    /\ dawn_after_prev' = fret[1]
    /\ BeginFirst(next_full)
    /\ mpc' = "next"
    /\ UNCHANGED <<sky, when, lat, tzoff, rvars, seen, ncalls, fret, cvars,
                   prev_full, next_full, dawn_after_next, days_in_month>>
    /\ UNCHANGED yvars
    /\ UNCHANGED bvars
    /\ UNCHANGED svars
    /\ UNCHANGED pvars
    /\ UNCHANGED lvars
    /\ UNCHANGED uvars

\* dawn_after_next is bound; `if dawn_after_prev and dawn_after_next:` and the
\* call count_dawn_cycles(dawn_after_prev, dawn_after_next, ...)
MonthAfterNext ==
    /\ mpc = "next"
    /\ fpc = "done"
    /\ dawn_after_next' = fret[1]
    /\ fpc' = "idle"
    /\ IF dawn_after_prev # None /\ fret[1] # None
         THEN /\ BeginCount(dawn_after_prev[1], fret[1][1])
              /\ mpc' = "count"
              /\ UNCHANGED cret
         ELSE /\ mpc' = "done"
              /\ UNCHANGED cvars
    /\ UNCHANGED <<sky, when, lat, tzoff, rvars, seen, ncalls, dt_utc, search_date,
                   i, fret, probes, prev_full, next_full, dawn_after_prev,
                   days_in_month>>
    /\ UNCHANGED yvars
    /\ UNCHANGED bvars
    /\ UNCHANGED svars
    /\ UNCHANGED pvars
    /\ UNCHANGED lvars
    /\ UNCHANGED uvars

\* days_in_month = the value count_dawn_cycles returned
MonthCounted ==
    /\ mpc = "count"
    /\ cpc = "done"
    /\ days_in_month' = Num(cret)
    /\ mpc' = "done"
    /\ UNCHANGED <<sky, when, lat, tzoff, rvars, seen, ncalls, fvars, cvars,
                   prev_full, next_full, dawn_after_prev, dawn_after_next>>
    /\ UNCHANGED yvars
    /\ UNCHANGED bvars
    /\ UNCHANGED svars
    /\ UNCHANGED pvars
    /\ UNCHANGED lvars
    /\ UNCHANGED uvars

\* get_event_with_fallback where the astronomical dawn exists on every date:
\* the first try block returns (sun.py:118-120)
ClearSky == TryTier /\ rpc' = "ret"

---------------------------------------------------------------------------
(* The reference tables and their lookups, year.py:9-24 *)

MaxT == 4            \* the tabulated instants range over 0..MaxT

TableInstants == 0..MaxT

\* a row of the column 'Full Moon Time (UTC)': the text of a UTC instant
Stamp(t) == <<t>>

\* pytz.UTC.localize(datetime.strptime(s, '%Y-%m-%d %H:%M:%S.%f')) (year.py:13, 22)
Parse(s) == s[1]

RECURSIVE Ascending(_)
Ascending(S) ==
    IF S = {} THEN <<>>
    ELSE LET least == CHOOSE x \in S : \A y \in S : x <= y
         IN <<Stamp(least)>> \o Ascending(S \ {least})

\* A loaded table: a frame with its one column, here in strictly ascending order.
Frame(rows) == <<rows>>
Tables == { Frame(Ascending(S)) : S \in SUBSET TableInstants }

\* frame['Full Moon Time (UTC)'].apply(...): the column, parsed
Column(frame) == [k \in 1..Len(frame[1]) |-> Parse(frame[1][k])]

\* the instants a mask selects from a series
Selected(times, mask) == { times[k] : k \in { j \in 1..Len(times) : mask[j] } }

\* _Series.max / _Series.min: None on an empty selection (data.py:397-401;
\* the pandas reductions give the missing value NaT there)
SeriesMax(S) == IF S = {} THEN None ELSE At(CHOOSE x \in S : \A y \in S : y <= x)
SeriesMin(S) == IF S = {} THEN None ELSE At(CHOOSE x \in S : \A y \in S : x <= y)

NotAfterStrict(t, now) == t < now

\* times <= now_utc (year.py:14)
NotAfter(t, now) == t <= now

\* find_prev_next_new_year, year.py:9-16, on the parsed column
find_prev_next_new_year(times, now) ==
    << SeriesMax(Selected(times, [k \in 1..Len(times) |-> NotAfter(times[k], now)])),
       SeriesMin(Selected(times, [k \in 1..Len(times) |-> times[k] > now])) >>

InRangeClosed(t, s, e) == t >= s /\ t <= e

\* (times >= start) & (times < end) (year.py:23)
InRange(t, s, e) == t >= s /\ t < e

\* get_full_moons_in_range, year.py:18-24: .tolist() keeps the order of the column
get_full_moons_in_range(times, s, e) == SelectSeq(times, LAMBDA t : InRange(t, s, e))

\* `if new_years_days is None: new_years_days = load_new_years_days()`
Loaded(table) == IF table = None THEN Tables ELSE {table}

QueryInstants == (0 - 1)..(MaxT + 1)

\* a call find_prev_next_new_year(now_utc)
CallBracket ==
    /\ \E now \in QueryInstants, table \in Loaded(new_years_days) :
         /\ new_years_days' = table
         /\ now_utc' = now
         /\ bracket' = find_prev_next_new_year(Column(table), now)
    /\ UNCHANGED <<sky, when, lat, tzoff, rvars, seen, ncalls, fvars, cvars, mvars,
                   full_moon_times, range, moons>>
    /\ UNCHANGED bvars
    /\ UNCHANGED svars
    /\ UNCHANGED pvars
    /\ UNCHANGED lvars
    /\ UNCHANGED uvars

\* a call get_full_moons_in_range(start, end)
CallRange ==
    /\ \E s \in QueryInstants, e \in QueryInstants, table \in Loaded(full_moon_times) :
         /\ full_moon_times' = table
         /\ range' = <<s, e>>
         /\ moons' = get_full_moons_in_range(Column(table), s, e)
    /\ UNCHANGED <<sky, when, lat, tzoff, rvars, seen, ncalls, fvars, cvars, mvars,
                   new_years_days, now_utc, bracket>>
    /\ UNCHANGED bvars
    /\ UNCHANGED svars
    /\ UNCHANGED pvars
    /\ UNCHANGED lvars
    /\ UNCHANGED uvars

---------------------------------------------------------------------------
(* get_multi_year_calendar_data, years.py:7-38.  The calls of
   find_first_dawn_after and count_dawn_cycles are taken at their return: each
   is a function of its arguments at the one location, discovered as asked. *)

YearLen == 2         \* tabulated instants per calendar year
MaxMissing == 1      \* full moons whose first dawn is 'not_found', per behaviour
MaxOdd == 1          \* months whose count is outside the month lengths, per behaviour

\* the lengths of a lunar month (calendar.py:12, 33, 72)
ShortMonth == 29
LongMonth == 30
MonthLengths == {ShortMonth, LongMonth}
OddLengths == {ShortMonth - 1, LongMonth + 1}

\* dt.year
YearOf(t) == t \div YearLen

Years == 0..YearOf(MaxT)

\* new_years_day.csv holds one anchor per calendar year
OnePerYear(S) == \A x, y \in S : x # y => YearOf(x) # YearOf(y)
AnchorTables == { Frame(Ascending(S)) : S \in { X \in SUBSET TableInstants : OnePerYear(X) } }
LoadedAnchors(table) == IF table = None THEN AnchorTables ELSE {table}

\* tags of a dawn that was found (sun.py:120-146)
ResolvedTags == {"astronomical", "migrated"}

Missing(memo) == { m \in DOMAIN memo : memo[m][1] = None }

\* what find_first_dawn_after(m, ...) returns: a dawn later than m with its
\* tag, or (None, 'not_found') (moon.py:30-31)
FirstDawnAnswers(memo, m) ==
    IF m \in DOMAIN memo THEN {memo[m]}
    ELSE { <<At(m + 1), tag>> : tag \in ResolvedTags }
         \cup (IF Cardinality(Missing(memo)) < MaxMissing
                 THEN {<<None, "not_found">>} ELSE {})

Odd(memo) == { k \in DOMAIN memo : memo[k] \notin MonthLengths }

\* what count_dawn_cycles(s, e, ...) returns: len(dawns) - 1 (moon.py:47)
CycleAnswers(memo, s, e) ==
    IF <<s, e>> \in DOMAIN memo THEN {memo[<<s, e>>]}
    ELSE MonthLengths \cup (IF Cardinality(Odd(memo)) < MaxOdd THEN OddLengths ELSE {})

Asked(memo, k, v) == IF k \in DOMAIN memo THEN memo ELSE memo @@ (k :> v)

\* new_years_day.csv is written from rows of full_moon_times.csv
\* (data/new_years_day_calculator.py:6-66)
FromFullMoons(nt, ft) ==
    \A k \in 1..Len(nt[1]) : \E j \in 1..Len(ft[1]) : ft[1][j] = nt[1][k]

NextBoundaryYear(ms, j, next_anchor) == next_anchor

\* the instant that closes month j: the next full moon of the year, or the
\* next anchor for the last month (years.py:28-31, calendar.py:63-66)
NextBoundary(ms, j, next_anchor) == IF j + 1 <= Len(ms) THEN ms[j + 1] ELSE next_anchor

YearInRangeTight(y, sy, ey) == sy <= y /\ y <= ey

\* start_year <= dt.year <= end_year+1 (years.py:16)
YearInRange(y, sy, ey) == sy <= y /\ y <= ey + 1

NotCountedShort == Num(ShortMonth)

\* days = None (years.py:35)
NotCounted == None

\* lines 13-17: the tables are loaded, the anchors filtered
BuildBegin ==
    /\ bpc = "idle"
    /\ \E sy \in Years, ey \in Years,
          nt \in LoadedAnchors(new_years_days), ft \in Loaded(full_moon_times) :
         /\ FromFullMoons(nt, ft)
         /\ start_year' = sy
         /\ end_year' = ey
         /\ new_years_days' = nt
         /\ full_moon_times' = ft
         /\ anchors' = SelectSeq(Column(nt), LAMBDA dt : YearInRange(YearOf(dt), sy, ey))
    /\ result' = <<>>
    /\ bi' = 1
    /\ bpc' = "year"
    /\ UNCHANGED <<sky, when, lat, tzoff, rvars, seen, ncalls, fvars, cvars, mvars,
                   now_utc, bracket, range, moons, first_dawn, cycles, year_moons,
                   months, bj>>
    /\ UNCHANGED svars
    /\ UNCHANGED pvars
    /\ UNCHANGED lvars
    /\ UNCHANGED uvars

\* the head of `for i, anchor in enumerate(anchors[:-1])` and lines 19-24, or
\* the return after the loop
BuildYear ==
    /\ bpc = "year"
    /\ IF bi <= Len(anchors) - 1
         THEN /\ year_moons' = SelectSeq(Column(full_moon_times),
                                  LAMBDA m : anchors[bi] <= m /\ m < anchors[bi + 1])
              /\ months' = <<>>
              /\ bj' = 1
              /\ bpc' = "month"
         ELSE /\ bpc' = "done"
              /\ UNCHANGED <<year_moons, months, bj>>
    /\ UNCHANGED <<sky, when, lat, tzoff, rvars, seen, ncalls, fvars, cvars, mvars,
                   yvars, first_dawn, cycles, start_year, end_year, anchors, bi,
                   result>>
    /\ UNCHANGED svars
    /\ UNCHANGED pvars
    /\ UNCHANGED lvars
    /\ UNCHANGED uvars

\* one turn of `for j, moon in enumerate(moons)` (lines 26-36), or line 37
BuildMonth ==
    /\ bpc = "month"
    /\ IF bj <= Len(year_moons)
         THEN LET moon == year_moons[bj]
                  closing == NextBoundary(year_moons, bj, anchors[bi + 1])
              IN \E a \in FirstDawnAnswers(first_dawn, moon) :
                 \E b \in FirstDawnAnswers(Asked(first_dawn, moon, a), closing) :
                   /\ first_dawn' = Asked(Asked(first_dawn, moon, a), closing, b)
                   /\ IF a[1] # None /\ b[1] # None
                        THEN \E n \in CycleAnswers(cycles, a[1][1], b[1][1]) :
                               /\ cycles' = Asked(cycles, <<a[1][1], b[1][1]>>, n)
                               /\ months' = Append(months,
                                     [start |-> a[1], days |-> Num(n),
                                      dawn_tag |-> a[2], full_moon_utc |-> moon])
                        ELSE /\ months' = Append(months,
                                     [start |-> a[1], days |-> NotCounted,
                                      dawn_tag |-> a[2], full_moon_utc |-> moon])
                             /\ UNCHANGED cycles
                   /\ month_next_dawn' = b[1]
                   /\ bj' = bj + 1
                   /\ UNCHANGED <<result, bi, bpc>>
         ELSE /\ result' = Append(result, [year |-> YearOf(anchors[bi]), months |-> months])
              /\ bi' = bi + 1
              /\ bpc' = "year"
              /\ UNCHANGED <<first_dawn, cycles, months, bj, month_next_dawn>>
    /\ UNCHANGED <<sky, when, lat, tzoff, rvars, seen, ncalls, fvars, cvars, mvars,
                   yvars, start_year, end_year, anchors, year_moons>>
    /\ UNCHANGED svars
    /\ UNCHANGED pvars
    /\ UNCHANGED uvars

---------------------------------------------------------------------------
(* The month grid and the single-year grid builder, calendar.py:9-88 *)

Columns == 7         \* cells of a grid row (calendar.py:25)

CellBelow(day, days) == IF day < days THEN Num(day) ELSE None

\* `if day <= days_in_month: row.append(day) else: row.append(None)`
Cell(day, days) == IF day <= days THEN Num(day) ELSE None

\* generate_month_grid, calendar.py:16-38, for an integer days_in_month: the
\* label row with day 1 in its last cell, four rows filled from day 2 on, and
\* a last row that holds day 30 only when days_in_month == 30
generate_month_grid(days, month_label) ==
    LET row1 == [c \in 1..Columns |-> IF c = Columns THEN Num(1) ELSE None]
        row(r) == [c \in 1..Columns |-> Cell(2 + (r - 1) * Columns + (c - 1), days)]
        last == IF days = LongMonth
                  THEN [c \in 1..Columns |-> IF c = 1 THEN Num(LongMonth) ELSE None]
                  ELSE [c \in 1..Columns |-> None]
    IN [label |-> month_label, grid |-> <<row1, row(1), row(2), row(3), row(4), last>>]

\* the month label of index i (calendar.py:75-82)
Label(k) ==
    IF k = 0 THEN "1st Month"
    ELSE IF k = 1 THEN "2nd Month"
    ELSE IF k = 2 THEN "3rd Month"
    ELSE ToString(k + 1) \o "th Month"

\* days = 29  # fallback (calendar.py:72; app.py:183)
FallbackDays == ShortMonth

\* `find_first_dawn_after(...)[0]`, `d1, _ = find_first_dawn_after(...)`: the
\* callers that keep the dawn and drop its tag
Dawn(answers) == { <<a[1], "_">> : a \in answers }

\* get_full_moons_in_range(prev_anchor, next_anchor) of a bracket.  With an
\* anchor missing the pandas mask selects nothing and the fallback series
\* raises (data.py:376-386), which the callers' except turns into no months.
MoonsOfBracket(times, pair) ==
    IF pair[1] = None \/ pair[2] = None THEN <<>>
    ELSE get_full_moons_in_range(times, pair[1][1], pair[2][1])

\* get_calendar_for_year, lines 50-55: now, the bracket, the moons of the year
GridBegin ==
    /\ bpc = "idle"
    /\ \E now \in QueryInstants,
          nt \in LoadedAnchors(new_years_days), ft \in Loaded(full_moon_times) :
         /\ FromFullMoons(nt, ft)
         /\ now_utc' = now
         /\ new_years_days' = nt
         /\ full_moon_times' = ft
         /\ bracket' = find_prev_next_new_year(Column(nt), now)
         /\ moons' = MoonsOfBracket(Column(ft), find_prev_next_new_year(Column(nt), now))
    /\ months' = <<>>
    /\ bj' = 1
    /\ bpc' = "grid"
    /\ UNCHANGED <<sky, when, lat, tzoff, rvars, seen, ncalls, fvars, cvars, mvars,
                   range, first_dawn, cycles, start_year, end_year, anchors, bi,
                   year_moons, result>>
    /\ UNCHANGED svars
    /\ UNCHANGED pvars
    /\ UNCHANGED lvars
    /\ UNCHANGED uvars

\* one turn of `for i, moon in enumerate(moons)` (lines 56-83), or the return
\* of line 85
GridMonth ==
    /\ bpc = "grid"
    /\ IF bj <= Len(moons)
         THEN LET moon == moons[bj]
                  next_moon == NextBoundary(moons, bj, bracket[2][1])
              IN \E a \in Dawn(FirstDawnAnswers(first_dawn, moon)) :
                 \E b \in Dawn(FirstDawnAnswers(Asked(first_dawn, moon, a), next_moon)) :
                   /\ first_dawn' = Asked(Asked(first_dawn, moon, a), next_moon, b)
                   /\ IF a[1] # None /\ b[1] # None
                        THEN \E n \in CycleAnswers(cycles, a[1][1], b[1][1]) :
                               /\ cycles' = Asked(cycles, <<a[1][1], b[1][1]>>, n)
                               /\ months' = Append(months,
                                               generate_month_grid(n, Label(bj - 1)))
                        ELSE /\ months' = Append(months,
                                               generate_month_grid(FallbackDays, Label(bj - 1)))
                             /\ UNCHANGED cycles
                   /\ month_next_dawn' = b[1]
                   /\ bj' = bj + 1
                   /\ UNCHANGED <<result, bpc>>
         ELSE /\ result' = [months |-> months]
              /\ bpc' = "done"
              /\ UNCHANGED <<first_dawn, cycles, months, bj, month_next_dawn>>
    /\ UNCHANGED <<sky, when, lat, tzoff, rvars, seen, ncalls, fvars, cvars, mvars,
                   yvars, start_year, end_year, anchors, bi, year_moons>>
    /\ UNCHANGED svars
    /\ UNCHANGED pvars
    /\ UNCHANGED uvars

---------------------------------------------------------------------------
(* select_location, app.py:157-256: the current day and month at a location.
   now_local and now_utc are the one instant `now` in two zones. *)

\* find_prev_next_full_moon, moon.py:8-16, on the parsed column
find_prev_next_full_moon(times, now) ==
    << SeriesMax(Selected(times, [k \in 1..Len(times) |-> times[k] <= now])),
       SeriesMin(Selected(times, [k \in 1..Len(times) |-> times[k] > now])) >>

\* find_first_dawn_after of a looked-up instant; of a missing one (NaT) no
\* date yields a dawn
DawnAfter(memo, x) ==
    IF x = None THEN {<<None, "_">>} ELSE Dawn(FirstDawnAnswers(memo, x[1]))

AskedAt(memo, x, a) == IF x = None THEN memo ELSE Asked(memo, x[1], a)

\* days = '--' (app.py:239)
Dashes == <<"-", "-">>

\* lines 186-204: the index of the dawn interval of the month that holds now,
\* else 1 before the first dawn of the month, else days_in_month
CurrentDay(now, dprev, dnext, n) ==
    IF dprev # None /\ dnext # None /\ dprev[1] <= now /\ now < dnext[1]
      THEN { Num(k) : k \in 1..n }
      ELSE IF dprev # None /\ now < dprev[1] THEN {Num(1)} ELSE {Num(n)}

\* lines 158-204: the tables, now, the month around now and the day in it
SelectBegin ==
    /\ bpc = "idle"
    /\ \E now \in QueryInstants,
          nt \in LoadedAnchors(new_years_days), ft \in Loaded(full_moon_times) :
         FromFullMoons(nt, ft) /\
         LET pn == find_prev_next_full_moon(Column(ft), now)
         IN /\ now_utc' = now
            /\ new_years_days' = nt
            /\ full_moon_times' = ft
            /\ prev_full' = pn[1]
            /\ next_full' = pn[2]
            /\ \/ /\ pn[1] = None \/ pn[2] = None
                  /\ bpc' = "error"
                  /\ UNCHANGED <<first_dawn, cycles, dawn_after_prev, dawn_after_next,
                                 days_in_month, current_day>>
               \/ \E a \in DawnAfter(first_dawn, pn[1]) :
                  \E b \in DawnAfter(AskedAt(first_dawn, pn[1], a), pn[2]) :
                  \E n \in (IF a[1] # None /\ b[1] # None
                              THEN CycleAnswers(cycles, a[1][1], b[1][1])
                              ELSE {FallbackDays}) :
                    /\ first_dawn' = AskedAt(AskedAt(first_dawn, pn[1], a), pn[2], b)
                    /\ cycles' = IF a[1] # None /\ b[1] # None
                                   THEN Asked(cycles, <<a[1][1], b[1][1]>>, n)
                                   ELSE cycles
                    /\ dawn_after_prev' = a[1]
                    /\ dawn_after_next' = b[1]
                    /\ days_in_month' = Num(n)
                    /\ current_day' \in CurrentDay(now, a[1], b[1], n)
                    /\ bpc' = "year"
    /\ UNCHANGED <<sky, when, lat, tzoff, rvars, seen, ncalls, fvars, cvars, mpc,
                   bracket, range, moons, start_year, end_year, anchors, bi,
                   year_moons, months, bj, result, month_num>>
    /\ UNCHANGED pvars
    /\ UNCHANGED lvars
    /\ UNCHANGED uvars

\* lines 207-210: the year around now and its moons.  With now outside the
\* anchors the lookup of the moons raises (data.py:376-386) or selects nothing.
SelectYear ==
    /\ bpc = "year"
    /\ bracket' = find_prev_next_new_year(Column(new_years_days), now_utc)
    /\ moons' = MoonsOfBracket(Column(full_moon_times),
                               find_prev_next_new_year(Column(new_years_days), now_utc))
    /\ month_num' = None
    /\ bj' = 1
    /\ \/ bpc' = "scan"
       \/ /\ bracket'[1] = None \/ bracket'[2] = None
          /\ bpc' = "error"
    /\ UNCHANGED <<sky, when, lat, tzoff, rvars, seen, ncalls, fvars, cvars, mvars,
                   new_years_days, full_moon_times, now_utc, range, first_dawn,
                   cycles, start_year, end_year, anchors, bi, year_moons, months,
                   result, current_day>>
    /\ UNCHANGED pvars
    /\ UNCHANGED lvars
    /\ UNCHANGED uvars

InMonthOpen(d1, now, d2) == d1 < now /\ now <= d2

\* d1 <= now_local < d2 (app.py:214)
InMonth(d1, now, d2) == d1 <= now /\ now < d2

\* one turn of the loop of lines 211-216, or lines 217-218 after it
SelectScan ==
    /\ bpc = "scan"
    /\ IF bj <= Len(moons)
         THEN LET m == moons[bj]
                  closing == IF bj + 1 <= Len(moons) THEN moons[bj + 1] ELSE bracket[2][1]
              IN \E d1 \in Dawn(FirstDawnAnswers(first_dawn, m)) :
                 \E d2 \in Dawn(FirstDawnAnswers(Asked(first_dawn, m, d1), closing)) :
                   /\ first_dawn' = Asked(Asked(first_dawn, m, d1), closing, d2)
                   /\ IF d1[1] # None /\ d2[1] # None
                         /\ InMonth(d1[1][1], now_utc, d2[1][1])
                        THEN /\ month_num' = Num(bj)
                             /\ bj' = 1
                             /\ months' = <<>>
                             /\ bpc' = "list"
                        ELSE /\ bj' = bj + 1
                             /\ UNCHANGED <<month_num, months, bpc>>
         ELSE /\ month_num' = IF dawn_after_prev # None /\ now_utc < dawn_after_prev[1]
                                THEN Num(1) ELSE Num(Len(moons))
              /\ bj' = 1
              /\ months' = <<>>
              /\ bpc' = "list"
              /\ UNCHANGED first_dawn
    /\ UNCHANGED <<sky, when, lat, tzoff, rvars, seen, ncalls, fvars, cvars, mvars,
                   yvars, cycles, start_year, end_year, anchors, bi, year_moons,
                   result, current_day>>
    /\ UNCHANGED pvars
    /\ UNCHANGED lvars
    /\ UNCHANGED uvars

\* one turn of the loop of lines 233-240, or the response of lines 243-256
SelectList ==
    /\ bpc = "list"
    /\ IF bj <= Len(moons)
         THEN LET m == moons[bj]
                  closing == IF bj + 1 <= Len(moons) THEN moons[bj + 1] ELSE bracket[2][1]
              IN \E d1 \in Dawn(FirstDawnAnswers(first_dawn, m)) :
                 \E d2 \in Dawn(FirstDawnAnswers(Asked(first_dawn, m, d1), closing)) :
                   /\ first_dawn' = Asked(Asked(first_dawn, m, d1), closing, d2)
                   /\ IF d1[1] # None /\ d2[1] # None
                        THEN \E n \in CycleAnswers(cycles, d1[1][1], d2[1][1]) :
                               /\ cycles' = Asked(cycles, <<d1[1][1], d2[1][1]>>, n)
                               /\ months' = Append(months, [days |-> Num(n)])
                        ELSE /\ months' = Append(months, [days |-> Dashes])
                             /\ UNCHANGED cycles
                   /\ bj' = bj + 1
                   /\ UNCHANGED <<result, bpc>>
         ELSE /\ result' = [monthNum |-> month_num, currentDay |-> current_day,
                            daysInMonth |-> days_in_month, monthsInYear |-> months]
              /\ bpc' = "done"
              /\ UNCHANGED <<first_dawn, cycles, months, bj>>
    /\ UNCHANGED <<sky, when, lat, tzoff, rvars, seen, ncalls, fvars, cvars, mvars,
                   yvars, start_year, end_year, anchors, bi, year_moons, svars>>
    /\ UNCHANGED pvars
    /\ UNCHANGED lvars
    /\ UNCHANGED uvars

---------------------------------------------------------------------------
(* The table globals of a process and the requests that load and read them:
   data.py:439-468, year.py:5-22, moon.py:5-13, years.py:13-14, app.py:107-117.
   A request is the list of the steps it has still to take; the threads of
   the server interleave between steps. *)

Threads == 2         \* requests in progress at a time
MaxLoads == 3        \* reads of one file that are followed

Requests == 1..Threads

\* the two tables, by the name of their global
Tabs == {"full_moon_times", "new_years_days"}

\* the modules that bind a table global: backend.data, and the names
\* imported from it by year.py:5 and moon.py:5, bound at import to None
Mods == {"data", "year", "moon"}

\* the rows a file can hold
Files == { Frame(Ascending(S)) : S \in {{}, {0}, TableInstants} }

\* a request slot with nothing to do
Resting == [prog |-> <<>>, tmp |-> None, observed |-> <<>>]

\* load_full_moon_times / load_new_years_days (data.py:455-468): the file is
\* read, then the global of backend.data is assigned; the frame is returned
load(t) == << <<"read", t>>, <<"store", "data", t>> >>

load_all_data == load("full_moon_times") \o load("new_years_days")

\* `global x; if x is None: x = load_x()` and the use of x (year.py:10-13,
\* 19-22; moon.py:10-13)
Lazy(m, t) == << <<"test", m, t>> >>

\* years.py:13-14: both tables loaded, the returned frames kept in locals
BuildSteps ==
    load("new_years_days") \o << <<"keep", "new_years_days">> >>
      \o load("full_moon_times") \o << <<"keep", "full_moon_times">> >>

\* get_calendar_for_year (calendar.py:52-54)
GridSteps == Lazy("year", "new_years_days") \o Lazy("year", "full_moon_times")

\* select_location (app.py:158, 180, 208-209)
SelectSteps ==
    << <<"flagtest">> >> \o Lazy("moon", "full_moon_times") \o GridSteps

\* the calls a request can make
Programs ==
    { Lazy("year", "new_years_days"), Lazy("year", "full_moon_times"),
      BuildSteps, GridSteps, SelectSteps }

Busy(r) == req[r].prog # <<>>

Step(r, op) == Busy(r) /\ Head(req[r].prog)[1] = op

\* what is left to do once the first step is taken, with new steps in front
Rest(r, steps) == steps \o Tail(req[r].prog)

\* a call is made when the previous one has returned
OneAtATime(r) == \A q \in Requests : ~Busy(q)

\* a call begins
BeginCall(r) ==
    /\ ~Busy(r)
    /\ OneAtATime(r)
    /\ \E steps \in Programs : req' = [req EXCEPT ![r] = [Resting EXCEPT !.prog = steps]]
    /\ wrote' = None
    /\ UNCHANGED <<csv, glob, data_loaded, loads>>
    /\ UNCHANGED <<sky, when, lat, tzoff, rvars, seen, ncalls, fvars, cvars, mvars,
                   yvars, bvars, svars, lvars, uvars>>

\* a request arrives, whatever the other threads are doing
BeginRequest(r) ==
    /\ ~Busy(r)
    /\ \E steps \in Programs : req' = [req EXCEPT ![r] = [Resting EXCEPT !.prog = steps]]
    /\ wrote' = None
    /\ UNCHANGED <<csv, glob, data_loaded, loads>>
    /\ UNCHANGED <<sky, when, lat, tzoff, rvars, seen, ncalls, fvars, cvars, mvars,
                   yvars, bvars, svars, lvars, uvars>>

\* `if x is None:` then the load, the assignment and the use, else the use
Test(r) ==
    /\ Step(r, "test")
    /\ LET m == Head(req[r].prog)[2]
           t == Head(req[r].prog)[3]
       IN req' = [req EXCEPT ![r].prog =
                    IF glob[m][t] = None
                      THEN Rest(r, load(t) \o << <<"store", m, t>>, <<"use", m, t>> >>)
                      ELSE Rest(r, << <<"use", m, t>> >>)]
    /\ wrote' = None
    /\ UNCHANGED <<csv, glob, data_loaded, loads>>
    /\ UNCHANGED <<sky, when, lat, tzoff, rvars, seen, ncalls, fvars, cvars, mvars,
                   yvars, bvars, svars, lvars, uvars>>

\* _read_csv(path) (data.py:445-452): the rows of the file, whole
Read(r) ==
    /\ Step(r, "read")
    /\ LET t == Head(req[r].prog)[2]
       IN /\ loads[t] < MaxLoads
          /\ \E rows \in (IF csv[t] = None THEN Files ELSE {csv[t]}) :
               /\ csv' = [csv EXCEPT ![t] = rows]
               /\ req' = [req EXCEPT ![r].prog = Rest(r, <<>>), ![r].tmp = rows]
          /\ loads' = [loads EXCEPT ![t] = @ + 1]
    /\ wrote' = None
    /\ UNCHANGED <<glob, data_loaded>>
    /\ UNCHANGED <<sky, when, lat, tzoff, rvars, seen, ncalls, fvars, cvars, mvars,
                   yvars, bvars, svars, lvars, uvars>>

\* the assignment of a table global (data.py:458, 466; year.py:12, 21;
\* moon.py:12)
Store(r) ==
    /\ Step(r, "store")
    /\ LET m == Head(req[r].prog)[2]
           t == Head(req[r].prog)[3]
       IN glob' = [glob EXCEPT ![m][t] = req[r].tmp]
    /\ req' = [req EXCEPT ![r].prog = Rest(r, <<>>)]
    /\ wrote' = Num(r)
    /\ UNCHANGED <<csv, data_loaded, loads>>
    /\ UNCHANGED <<sky, when, lat, tzoff, rvars, seen, ncalls, fvars, cvars, mvars,
                   yvars, bvars, svars, lvars, uvars>>

\* `times = x['Full Moon Time (UTC)']...`: the global is read (year.py:13, 22;
\* moon.py:13)
Use(r) ==
    /\ Step(r, "use")
    /\ LET m == Head(req[r].prog)[2]
           t == Head(req[r].prog)[3]
       IN req' = [req EXCEPT ![r].prog = Rest(r, <<>>),
                             ![r].observed = Append(@, <<t, glob[m][t]>>)]
    /\ wrote' = None
    /\ UNCHANGED <<csv, glob, data_loaded, loads>>
    /\ UNCHANGED <<sky, when, lat, tzoff, rvars, seen, ncalls, fvars, cvars, mvars,
                   yvars, bvars, svars, lvars, uvars>>

\* the frame a loader returned is used from the local (years.py:15, 22)
Keep(r) ==
    /\ Step(r, "keep")
    /\ LET t == Head(req[r].prog)[2]
       IN req' = [req EXCEPT ![r].prog = Rest(r, <<>>),
                             ![r].observed = Append(@, <<t, req[r].tmp>>)]
    /\ wrote' = None
    /\ UNCHANGED <<csv, glob, data_loaded, loads>>
    /\ UNCHANGED <<sky, when, lat, tzoff, rvars, seen, ncalls, fvars, cvars, mvars,
                   yvars, bvars, svars, lvars, uvars>>

\* ensure_data_loaded: `if not _DATA_LOADED:` (app.py:111-113)
FlagTest(r) ==
    /\ Step(r, "flagtest")
    /\ req' = [req EXCEPT ![r].prog =
                 IF data_loaded THEN Rest(r, <<>>)
                 ELSE Rest(r, load_all_data \o << <<"flagset">> >>)]
    /\ wrote' = None
    /\ UNCHANGED <<csv, glob, data_loaded, loads>>
    /\ UNCHANGED <<sky, when, lat, tzoff, rvars, seen, ncalls, fvars, cvars, mvars,
                   yvars, bvars, svars, lvars, uvars>>

\* _DATA_LOADED = True (app.py:114)
FlagSet(r) ==
    /\ Step(r, "flagset")
    /\ data_loaded' = TRUE
    /\ req' = [req EXCEPT ![r].prog = Rest(r, <<>>)]
    /\ wrote' = Num(r)
    /\ UNCHANGED <<csv, glob, loads>>
    /\ UNCHANGED <<sky, when, lat, tzoff, rvars, seen, ncalls, fvars, cvars, mvars,
                   yvars, bvars, svars, lvars, uvars>>

---------------------------------------------------------------------------
(* The loader on an arbitrary file, data.py:421-468 *)

MaxRows == 3         \* rows of a file

\* a row whose text is not a timestamp: strptime raises ValueError on it
Garbled == <<>>

\* the files of at most MaxRows rows, in any order, with repeats
RECURSIVE RowsUpTo(_)
RowsUpTo(n) ==
    IF n = 0 THEN {<<>>}
    ELSE RowsUpTo(n - 1)
           \cup { Append(rows, x) : rows \in { q \in RowsUpTo(n - 1) : Len(q) = n - 1 },
                                     x \in { Stamp(t) : t \in 0..(MaxRows - 1) } \cup {Garbled} }

\* the files the loader is run on
LoaderFiles == RowsUpTo(MaxRows)

\* _read_csv / _read_csv_as_fallback_df (data.py:421-452): every row of the
\* file, in the order of the file
read_csv(rows) == Frame(rows)

\* load_full_moon_times on a file (data.py:455-460)
LoadTable ==
    /\ \E rows \in LoaderFiles : full_moon_times' = read_csv(rows)
    /\ UNCHANGED <<sky, when, lat, tzoff, rvars, seen, ncalls, fvars, cvars, mvars,
                   new_years_days, now_utc, bracket, range, moons>>
    /\ UNCHANGED <<bvars, svars, pvars>>
    /\ UNCHANGED lvars
    /\ UNCHANGED uvars

\* get_full_moons_in_range on the loaded table (year.py:22-24): the parse of a
\* garbled row raises, else the rows in range in the order of the table
LookupLoaded ==
    /\ full_moon_times # None
    /\ \E s \in QueryInstants, e \in QueryInstants :
         /\ range' = <<s, e>>
         /\ IF \E k \in 1..Len(full_moon_times[1]) : full_moon_times[1][k] = Garbled
              THEN moons' = <<"ValueError">>
              ELSE moons' = get_full_moons_in_range(Column(full_moon_times), s, e)
    /\ UNCHANGED <<sky, when, lat, tzoff, rvars, seen, ncalls, fvars, cvars, mvars,
                   new_years_days, full_moon_times, now_utc, bracket>>
    /\ UNCHANGED <<bvars, svars, pvars>>
    /\ UNCHANGED lvars
    /\ UNCHANGED uvars

---------------------------------------------------------------------------
(* get_sun_events_for_date, sun.py:7-100, and the endpoint of the
   astro-service it asks for the moon's illumination,
   astro-service/app/main.py:68-77.  Percentages are in thousandths of a
   percent, waits in tenths of a second. *)

\* range(3): the turns of the retry loop (sun.py:57)
Attempts == 3

\* attempt < 2: the turns after whose failure the loop waits (sun.py:65)
Patience == 2

WaitFlat(n) == 5

\* time.sleep(0.5 * (attempt + 1)) (sun.py:66)
Wait(n) == 5 * (n + 1)

\* what get_event_with_fallback(kind, ..., d) may return (sun.py:108-180):
\* an event on the date with its tag, or (None, 'not_found')
EventAnswers(kind, d) ==
    IF kind = "dawn"
      THEN { <<At(t), tag>> : t \in Window(d, tzoff), tag \in ResolvedTags }
           \cup {<<None, "not_found">>}
      ELSE {<<At((d + 1) * DayLen - 1 - tzoff), "astronomical">>, <<None, "not_found">>}

\* what get_sunrise / get_sunset may return: the event, or None (sun.py:184-198)
Daylight(d) == {At(d * DayLen - tzoff), None}

\* t.strftime('%H:%M') if t else '--:--' (sun.py:13-14)
Fmt(t) == IF t = None THEN <<"--", "--">> ELSE <<(t[1] + tzoff) % DayLen>>

\* dawn_utc.isoformat().replace('+00:00', 'Z') (sun.py:51, 53)
IsoZ(t) == <<"Z", t[1]>>

\* datetime.fromisoformat(s.replace('Z', '+00:00')) (main.py:73)
FromIso(s) == At(s[2])

\* the illuminated fraction of the moon the ephemeris may give for an instant
Percents == {12344, 12346}

\* moon_illumination_batch: one {'iso': s, 'percent': ...} per string of the
\* query, in the order of the query; the percentage is that of the instant
\* the string parses to (main.py:69-77)
moon_illumination_batch(iso) ==
    { [k \in 1..Len(iso) |-> [iso |-> iso[k], percent |-> f[k]]] :
        f \in { g \in [1..Len(iso) -> Percents] :
                  \A a, b \in 1..Len(iso) : FromIso(iso[a]) = FromIso(iso[b]) => g[a] = g[b] } }

\* float(arr[k]['percent']): a number, where None is none (sun.py:71, 73)
Float(p) == <<p>>

\* round(illum, 2) and the format :.2f (sun.py:75, 95, 96)
Round2(p) == ((p + 5) \div 10) * 10

\* the except clause that receives an exception raised at a position: the try
\* block of lines 44-77 is closed by the except of line 78; elsewhere the
\* exception leaves the function
Catches(pc) == IF pc \in {"tomorrow", "get", "map", "line"} THEN "except" ELSE "caller"

\* the rest of the state, which get_sun_events_for_date does not touch
OutsideSun == <<sky, when, lat, tzoff, rvars, seen, ncalls, fvars, cvars, mvars,
                yvars, bvars, svars, pvars, lvars>>

\* lines 8-43: the four events of the date, and illum1 = illum2 = None
SunBegin ==
    /\ upc = "idle"
    /\ \E d \in CallDates :
        \E dw \in EventAnswers("dawn", d), du \in EventAnswers("dusk", d),
           sr \in Daylight(d), ss \in Daylight(d) :
            /\ sun_date' = d
            /\ dawn_time' = dw[1]
            /\ dawn_tag' = dw[2]
            /\ sunrise_time' = sr
            /\ sunset_time' = ss
            /\ dusk_time' = du[1]
            /\ dusk_tag' = du[2]
    /\ illum1' = None
    /\ illum2' = None
    /\ dawn_time2' = None
    /\ iso_list' = <<>>
    /\ attempt' = 0
    /\ arr' = None
    /\ moon_line' = None
    /\ json_dict' = None
    /\ tries' = <<>>
    /\ slept' = <<>>
    /\ upc' = "tomorrow"
    /\ UNCHANGED OutsideSun

\* lines 45-54: tomorrow's dawn and the list of instants to ask for
SunTomorrow ==
    /\ upc = "tomorrow"
    /\ \E dw \in EventAnswers("dawn", sun_date + 1) :
        /\ dawn_time2' = dw[1]
        /\ iso_list' = (IF dawn_time # None THEN <<IsoZ(dawn_time)>> ELSE <<>>)
                       \o (IF dw[1] # None THEN <<IsoZ(dw[1])>> ELSE <<>>)
    /\ attempt' = 0
    /\ upc' = IF iso_list' # <<>> THEN "get" ELSE "line"
    /\ UNCHANGED <<sun_date, dawn_time, dawn_tag, sunrise_time, sunset_time, dusk_time,
                   dusk_tag, arr, illum1, illum2, moon_line, json_dict, tries, slept>>
    /\ UNCHANGED OutsideSun

\* lines 58-62: the request is answered, and the loop is left
SunGetOk ==
    /\ upc = "get"
    /\ \E out \in moon_illumination_batch(iso_list) : arr' = out
    /\ tries' = Append(tries, "ok")
    /\ upc' = "map"
    /\ UNCHANGED <<sun_date, dawn_time, dawn_tag, sunrise_time, sunset_time, dusk_time,
                   dusk_tag, dawn_time2, iso_list, attempt, illum1, illum2, moon_line,
                   json_dict, slept>>
    /\ UNCHANGED OutsideSun

\* lines 58-67: the request raises (no connection, timeout, error status,
\* unreadable body); the loop waits and tries again, or raises
SunGetFail ==
    /\ upc = "get"
    /\ tries' = Append(tries, "fail")
    /\ IF attempt < Patience
         THEN /\ slept' = Append(slept, Wait(attempt))
              /\ attempt' = attempt + 1
              /\ upc' = IF attempt + 1 < Attempts THEN "get" ELSE "map"
         ELSE /\ upc' = Catches("get")
              /\ UNCHANGED <<slept, attempt>>
    /\ UNCHANGED <<sun_date, dawn_time, dawn_tag, sunrise_time, sunset_time, dusk_time,
                   dusk_tag, dawn_time2, iso_list, arr, illum1, illum2, moon_line,
                   json_dict>>
    /\ UNCHANGED OutsideSun

\* lines 69-73: map back in order
SunMap ==
    /\ upc = "map"
    /\ IF arr = None
         THEN /\ upc' = Catches("map")
              /\ UNCHANGED <<illum1, illum2>>
         ELSE /\ illum1' = IF Len(arr) >= 1 THEN Float(arr[1].percent) ELSE illum1
              /\ illum2' = IF Len(arr) >= 2 THEN Float(arr[2].percent) ELSE illum2
              /\ upc' = "line"
    /\ UNCHANGED <<sun_date, dawn_time, dawn_tag, sunrise_time, sunset_time, dusk_time,
                   dusk_tag, dawn_time2, iso_list, attempt, arr, moon_line, json_dict,
                   tries, slept>>
    /\ UNCHANGED OutsideSun

\* lines 74-77: the Moon % line of the plain text
SunLine ==
    /\ upc = "line"
    /\ moon_line' = IF illum1 # None /\ illum2 # None
                      THEN <<Round2(illum1[1]), Round2(illum2[1])>>
                      ELSE <<"--">>
    /\ upc' = "json"
    /\ UNCHANGED <<sun_date, dawn_time, dawn_tag, sunrise_time, sunset_time, dusk_time,
                   dusk_tag, dawn_time2, iso_list, attempt, arr, illum1, illum2,
                   json_dict, tries, slept>>
    /\ UNCHANGED OutsideSun

\* lines 78-79: the error is written into the Moon % line
SunExcept ==
    /\ upc = "except"
    /\ moon_line' = <<"--", "error", "e">>
    /\ upc' = "json"
    /\ UNCHANGED <<sun_date, dawn_time, dawn_tag, sunrise_time, sunset_time, dusk_time,
                   dusk_tag, dawn_time2, iso_list, attempt, arr, illum1, illum2,
                   json_dict, tries, slept>>
    /\ UNCHANGED OutsideSun

\* lines 81-100: json_dict is built and returned
SunReturn ==
    /\ upc = "json"
    /\ json_dict' =
         [date |-> sun_date,
          dawn |-> [time |-> Fmt(dawn_time), type |-> dawn_tag],
          sunrise |-> Fmt(sunrise_time),
          sunset |-> Fmt(sunset_time),
          dusk |-> [time |-> Fmt(dusk_time), type |-> dusk_tag],
          moon_percent |->
            [today_dawn |-> IF illum1 # None THEN Float(Round2(illum1[1])) ELSE None,
             tomorrow_dawn |-> IF illum2 # None THEN Float(Round2(illum2[1])) ELSE None]]
    /\ upc' = "idle"
    /\ UNCHANGED <<sun_date, dawn_time, dawn_tag, sunrise_time, sunset_time, dusk_time,
                   dusk_tag, dawn_time2, iso_list, attempt, arr, illum1, illum2,
                   moon_line, tries, slept>>
    /\ UNCHANGED OutsideSun

---------------------------------------------------------------------------
Init ==
    /\ sky = <<>>
    /\ when = <<>>
    /\ lat \in Lats
    /\ tzoff \in TzOffsets
    /\ rpc = "idle"
    /\ event_type = "dawn"
    /\ date_ = 0
    /\ migrated_lat = 0
    /\ ret = <<None, "not_found">>
    /\ caller = "none"
    /\ trail = <<>>
    /\ seen = <<>>
    /\ ncalls = 0
    /\ fpc = "idle"
    /\ dt_utc = 0
    /\ search_date = 0
    /\ i = 0
    /\ fret = <<None, "not_found">>
    /\ probes = <<>>
    /\ cpc = "idle"
    /\ start_dawn = 0
    /\ end_dawn = 0
    /\ dawns = <<>>
    /\ current = 0
    /\ cret = 0
    /\ cprobes = <<>>
    /\ mpc = "idle"
    /\ prev_full = 0
    /\ next_full = 0
    /\ dawn_after_prev = None
    /\ dawn_after_next = None
    /\ days_in_month = None
    /\ new_years_days = None
    /\ full_moon_times = None
    /\ now_utc = 0
    /\ bracket = <<None, None>>
    /\ range = <<0, 0>>
    /\ moons = <<>>
    /\ first_dawn = <<>>
    /\ cycles = <<>>
    /\ bpc = "idle"
    /\ start_year = 0
    /\ end_year = 0
    /\ anchors = <<>>
    /\ bi = 0
    /\ year_moons = <<>>
    /\ months = <<>>
    /\ bj = 0
    /\ result = <<>>
    /\ current_day = None
    /\ month_num = None
    /\ csv = [t \in Tabs |-> None]
    /\ glob = [m \in Mods |-> [t \in Tabs |-> None]]
    /\ data_loaded = FALSE
    /\ loads = [t \in Tabs |-> 0]
    /\ req = [r \in Requests |-> Resting]
    /\ wrote = None
    /\ month_next_dawn = None
    /\ upc = "idle"
    /\ sun_date = 0
    /\ dawn_time = None
    /\ dawn_tag = "not_found"
    /\ sunrise_time = None
    /\ sunset_time = None
    /\ dusk_time = None
    /\ dusk_tag = "not_found"
    /\ dawn_time2 = None
    /\ iso_list = <<>>
    /\ attempt = 0
    /\ arr = None
    /\ illum1 = None
    /\ illum2 = None
    /\ moon_line = None
    /\ json_dict = None
    /\ tries = <<>>
    /\ slept = <<>>

\* The dawn search and the cycle counter treat both hemispheres alike.
InitDawn == Init /\ lat >= 0

Next ==
    \/ CallResolve
    \/ TryTier
    \/ TryGeometric
    \/ MigrateStep
    \/ ReturnTop

Spec == Init /\ [][Next]_vars

\* find_first_dawn_after and the calls it makes
NextDawn ==
    \/ CallFirst
    \/ FirstProbe
    \/ FirstCheck
    \/ TryTier
    \/ TryGeometric
    \/ MigrateStep

SpecDawn == InitDawn /\ [][NextDawn]_vars

\* count_dawn_cycles and the calls it makes
NextCycles ==
    \/ CallCount
    \/ CountProbe
    \/ CountCheck
    \/ TryTier
    \/ TryGeometric
    \/ MigrateStep

SpecCycles == InitDawn /\ [][NextCycles]_vars

\* the month of today at the equator, where the astronomical dawn exists
InitMonth == Init /\ lat = 0

NextMonth ==
    \/ MonthBegin
    \/ MonthAfterPrev
    \/ MonthAfterNext
    \/ MonthCounted
    \/ FirstProbe
    \/ FirstCheck
    \/ CountProbe
    \/ CountCheck
    \/ ClearSky

SpecMonth == InitMonth /\ [][NextMonth]_vars

\* the lookups of year.py at one location
InitYear == Init /\ lat = 0 /\ tzoff = 0

\* calls of find_prev_next_new_year
SpecBracket == InitYear /\ [][CallBracket]_vars

\* calls of get_full_moons_in_range
SpecRange == InitYear /\ [][CallRange]_vars

NextBuild ==
    \/ BuildBegin
    \/ BuildYear
    \/ BuildMonth

\* get_multi_year_calendar_data at one location
SpecBuild == InitYear /\ [][NextBuild]_vars

NextGrid ==
    \/ GridBegin
    \/ GridMonth

\* get_calendar_for_year at one location
SpecGrid == InitYear /\ [][NextGrid]_vars

NextSelect ==
    \/ SelectBegin
    \/ SelectYear
    \/ SelectScan
    \/ SelectList

\* select_location at one location
SpecSelect == InitYear /\ [][NextSelect]_vars

NextCalls ==
    \E r \in Requests :
      \/ BeginCall(r)
      \/ Test(r)
      \/ Read(r)
      \/ Store(r)
      \/ Use(r)
      \/ Keep(r)
      \/ FlagTest(r)
      \/ FlagSet(r)

\* the calls of one process, one after the other
SpecCalls == InitYear /\ [][NextCalls]_vars

NextRequests ==
    \E r \in Requests :
      \/ BeginRequest(r)
      \/ Test(r)
      \/ Read(r)
      \/ Store(r)
      \/ Use(r)
      \/ Keep(r)
      \/ FlagTest(r)
      \/ FlagSet(r)

\* the requests of one process, served by concurrent threads
SpecRequests == InitYear /\ [][NextRequests]_vars

NextLoad ==
    \/ LoadTable
    \/ LookupLoaded

\* a table loaded from any file, and the lookups on it
SpecLoad == InitYear /\ [][NextLoad]_vars

\* get_sun_events_for_date, called again and again
NextSun ==
    \/ SunBegin
    \/ SunTomorrow
    \/ SunGetOk
    \/ SunGetFail
    \/ SunMap
    \/ SunLine
    \/ SunExcept
    \/ SunReturn

\* the steps of a call under way: once called, the function runs on (every
\* request returns or raises within its timeout, every sleep ends)
SunRuns ==
    \/ SunTomorrow
    \/ SunGetOk
    \/ SunGetFail
    \/ SunMap
    \/ SunLine
    \/ SunExcept
    \/ SunReturn

SpecSun == InitYear /\ [][NextSun]_vars /\ WF_vars(SunRuns)

\* The interpreter keeps executing a running call: each step of
\* get_event_with_fallback that can be taken is eventually taken.
FairSpec ==
    Spec /\ WF_vars(TryTier) /\ WF_vars(TryGeometric) /\ WF_vars(MigrateStep)

FairSpecDawn ==
    /\ SpecDawn
    /\ WF_vars(FirstProbe) /\ WF_vars(FirstCheck)
    /\ WF_vars(TryTier) /\ WF_vars(TryGeometric) /\ WF_vars(MigrateStep)

---------------------------------------------------------------------------
(* Properties of get_event_with_fallback *)

Failed(q) == q \in DOMAIN sky /\ ~sky[q]
Succeeded(q) == q \in DOMAIN sky /\ sky[q]

TierQuery(dep) == <<event_type, lat, date_, dep>>
GeoQuery == <<GeoFn(event_type), lat, date_, 0>>
RetryQuery(m) == <<event_type, m, date_, 18>>
TwilightFailed == Failed(TierQuery(18)) /\ Failed(TierQuery(12)) /\ Failed(TierQuery(6))
AllTiersFailed == TwilightFailed /\ Failed(GeoQuery)

\* C1: a returned call carries the tag and the event of the first tier, in the
\* order 18, 12, 6, sunrise/sunset, whose astral call returned: 'astronomical'
\* iff 18 returned; 'nautical' iff 18 raised and 12 returned; 'civil' iff 18
\* and 12 raised and 6 returned; 'sunrise' (dawn) or 'sunset' (dusk) iff the
\* three raised and the geometric call returned.  A dawn call never returns
\* 'sunset' and a dusk call never returns 'sunrise'.
C1_FirstTierWins ==
    rpc = "ret" =>
      /\ (ret[2] = "astronomical") <=> Succeeded(TierQuery(18))
      /\ (ret[2] = "nautical") <=> (Failed(TierQuery(18)) /\ Succeeded(TierQuery(12)))
      /\ (ret[2] = "civil") <=>
            (Failed(TierQuery(18)) /\ Failed(TierQuery(12)) /\ Succeeded(TierQuery(6)))
      /\ (ret[2] = GeoFn(event_type)) <=> (TwilightFailed /\ Succeeded(GeoQuery))
      /\ ret[2] = "astronomical" => ret[1] = TierQuery(18)
      /\ ret[2] = "nautical" => ret[1] = TierQuery(12)
      /\ ret[2] = "civil" => ret[1] = TierQuery(6)
      /\ ret[2] = GeoFn(event_type) => ret[1] = GeoQuery
      /\ event_type = "dawn" => ret[2] # "sunset"
      /\ event_type = "dusk" => ret[2] # "sunrise"

C1_Witness ==
    /\ rpc = "ret"
    /\ event_type = "dusk"
    /\ ret[2] = "sunset"
    /\ TwilightFailed

\* C2: a returned call whose four tiers all raised at the requested latitude
\* is tagged 'migrated' or 'not_found'; it is 'migrated' exactly when one of the
\* retries of this call returned, and its event is then the 18 degree event of
\* the first retried latitude, in stepping order, whose retry returned.
C2_MigratedOrNotFound ==
    (rpc = "ret" /\ AllTiersFailed) =>
      /\ ret[2] \in {"migrated", "not_found"}
      /\ (ret[2] = "migrated") <=>
            (\E n \in 1..Len(trail) : Succeeded(RetryQuery(trail[n])))
      /\ ret[2] = "migrated" =>
            \E n \in 1..Len(trail) :
               /\ ret[1] = RetryQuery(trail[n])
               /\ Succeeded(RetryQuery(trail[n]))
               /\ \A j \in 1..(n - 1) : Failed(RetryQuery(trail[j]))
      /\ ret[2] = "not_found" => ret[1] = None

C2_Witness ==
    /\ rpc = "ret"
    /\ AllTiersFailed
    /\ ret[2] = "migrated"
    /\ Len(trail) >= 1

\* C3: when no retry returns, the migration ends after at most |lat| retries
\* (rounded up to whole degrees), whatever the requested latitude.
C3_MigrationBounded ==
    Len(trail) * Degree <= Abs(lat) + Degree - 1

\* C4: every retried latitude is one degree closer to the equator than the one
\* before it and lies in the hemisphere of the requested latitude.
C4_TowardEquator ==
    \A n \in 1..Len(trail) :
       /\ trail[n] * lat >= 0
       /\ Abs(trail[n]) = Abs(lat) - n * Degree

\* C5: every call of get_event_with_fallback returns: errors of the astral
\* calls are tier failures, and the search ends in (None, 'not_found') when
\* every tier and every retry fails.
C5_AlwaysReturns == (rpc = "tier18") ~> (rpc = "ret")

\* C6: a call returns the pair that the first call with the same
\* (event_type, lat, date_) returned, whatever was called in between.
C6_Deterministic ==
    (rpc = "ret" /\ <<event_type, lat, date_>> \in DOMAIN seen) =>
       ret = seen[<<event_type, lat, date_>>]

C6_Witness ==
    /\ rpc = "ret"
    /\ <<event_type, lat, date_>> \in DOMAIN seen
    /\ ret[2] = "migrated"
    /\ ncalls = 3
    /\ Cardinality(DOMAIN seen) = 2

---------------------------------------------------------------------------
(* Properties of find_first_dawn_after *)

Unresolved(p) == p[2] = None
NotLater(p) == p[2] = None \/ p[2][1] <= dt_utc

\* C7: the loop probes the local civil date of dt_utc and the dates after it in
\* ascending order, at most 10 of them; every probe before the last one was
\* unresolved or not later than dt_utc; a returned dawn is the dawn, with the
\* tag, that get_event_with_fallback returned for the last probed date, and it
\* is strictly later than dt_utc.
C7_FirstLaterDawn ==
    /\ Len(probes) <= Horizon
    /\ \A k \in 1..Len(probes) : probes[k][1] = LocalDate(dt_utc, tzoff) + (k - 1)
    /\ (fpc \in {"loop", "wait"}) => \A k \in 1..Len(probes) : NotLater(probes[k])
    /\ (fpc = "done" /\ fret[1] # None) =>
          /\ Len(probes) >= 1
          /\ fret = <<probes[Len(probes)][2], probes[Len(probes)][3]>>
          /\ fret = <<At(when[ret[1]]), ret[2]>>
          /\ date_ = probes[Len(probes)][1]
          /\ fret[1][1] > dt_utc
          /\ \A k \in 1..(Len(probes) - 1) : NotLater(probes[k])

C7_Witness ==
    /\ fpc = "done"
    /\ fret[1] # None
    /\ Len(probes) = 3
    /\ ~Unresolved(probes[1])
    /\ Unresolved(probes[2])
    /\ fret[2] = "nautical"

\* C8: every call of find_first_dawn_after returns, after at most 10 calls of
\* get_event_with_fallback.
C8_FirstTerminates == (fpc = "loop") ~> (fpc = "done")

---------------------------------------------------------------------------
(* Properties of count_dawn_cycles *)

Last(sq) == sq[Len(sq)]

\* the dawns accepted by the turns of the loop that did not leave it
Accepted(n) == [k \in 1..n |-> cprobes[k][2][1]]

OnDate(p) == p[2] # None /\ LocalDate(p[2][1], tzoff) = p[1]

\* every probed date resolved to a dawn on that date, and start_dawn and
\* end_dawn are the dawns of their own dates
OneDawnPerDate ==
    /\ \A k \in 1..Len(cprobes) : OnDate(cprobes[k])
    /\ LocalDate(start_dawn, tzoff) = LocalDate(end_dawn, tzoff) => start_dawn = end_dawn
    /\ LocalDate(start_dawn, tzoff) < LocalDate(end_dawn, tzoff) =>
          \E k \in 1..Len(cprobes) :
             cprobes[k] = <<LocalDate(end_dawn, tzoff), At(end_dawn)>>

\* C9: count_dawn_cycles returns len(dawns) - 1, where dawns is start_dawn,
\* then the dawn resolved for the civil day after the previous dawn's day, turn
\* by turn, as long as it resolves and is not later than end_dawn, then end_dawn
\* when the last of these is strictly before it.  When every probed date
\* resolves to a dawn on that date and start_dawn and end_dawn are the dawns of
\* their dates, the count is the number of civil days between the two dates.
C9_CountsIntervals ==
    cpc = "done" =>
       LET n == Len(cprobes) - 1
           body == <<start_dawn>> \o Accepted(n)
       IN /\ n >= 0
          /\ cret = Len(dawns) - 1
          /\ \A k \in 1..n : cprobes[k][2] # None /\ cprobes[k][2][1] <= end_dawn
          /\ \A k \in 1..(n + 1) : cprobes[k][1] = LocalDate(body[k], tzoff) + 1
          /\ cprobes[n + 1][2] = None \/ cprobes[n + 1][2][1] > end_dawn
          /\ dawns = (IF Last(body) < end_dawn THEN Append(body, end_dawn) ELSE body)
          /\ OneDawnPerDate =>
                cret = LocalDate(end_dawn, tzoff) - LocalDate(start_dawn, tzoff)

C9_Witness ==
    /\ cpc = "done"
    /\ OneDawnPerDate
    /\ cret = 2
    /\ Last(dawns) = cprobes[2][2][1]

\* C10: the list dawns is strictly increasing at every step of the loop and on
\* return.
C10_StrictlyIncreasing ==
    \A k \in 1..(Len(dawns) - 1) : dawns[k] < dawns[k + 1]

Stopping(p) == p[2] = None \/ p[2][1] > end_dawn

\* C11: the day-stepping ends at the first probed day whose dawn does not
\* resolve or is later than end_dawn: no accumulated dawn is later than
\* end_dawn, only the last probe of a call can be such a day, and the call is
\* over (no further day is probed) exactly when its last probe is one.
C11_StopsAtFirst ==
    /\ \A k \in 1..Len(dawns) : dawns[k] <= end_dawn
    /\ \A k \in 1..(Len(cprobes) - 1) : ~Stopping(cprobes[k])
    /\ (cpc \in {"loop", "wait"}) => \A k \in 1..Len(cprobes) : ~Stopping(cprobes[k])
    /\ cpc = "done" => (Len(cprobes) >= 1 /\ Stopping(Last(cprobes)))

C11_Witness ==
    /\ cpc = "done"
    /\ Len(cprobes) = 3
    /\ Last(cprobes)[2] # None
    /\ Last(cprobes)[2][1] > end_dawn
    /\ Len(dawns) = 3

---------------------------------------------------------------------------
(* Properties of the month of today *)

\* every dawn astral returned lies on the civil date it was asked for
DawnsOnDate == \A q \in DOMAIN when : LocalDate(when[q], tzoff) = q[3]

\* C12: between the first dawns after two consecutive full moons, MonthDays to
\* MonthDays + 1 days apart (29 to 30 in the table), where every civil day has
\* one dawn on that day, count_dawn_cycles returns MonthDays or MonthDays + 1.
C12_MonthLength ==
    (mpc = "done" /\ DawnsOnDate /\ days_in_month # None) =>
       days_in_month[1] \in {MonthDays, MonthDays + 1}

---------------------------------------------------------------------------
(* Properties of the lookups of year.py *)

Anchors == Column(new_years_days)
BracketReturned == new_years_days # None
Covered == Len(Anchors) >= 1 /\ Anchors[1] <= now_utc /\ now_utc < Anchors[Len(Anchors)]

\* C13: for now_utc from the first anchor up to, but not including, the last
\* one, find_prev_next_new_year returns two adjacent entries of the table,
\* prev <= now_utc < nxt: prev is the greatest entry <= now_utc (now_utc itself
\* when it is an entry) and nxt the least entry > now_utc.
C13_Brackets ==
    (BracketReturned /\ Covered) =>
       \E k \in 1..(Len(Anchors) - 1) :
          /\ bracket = <<At(Anchors[k]), At(Anchors[k + 1])>>
          /\ Anchors[k] <= now_utc
          /\ now_utc < Anchors[k + 1]
          /\ \A j \in 1..Len(Anchors) :
                /\ Anchors[j] <= now_utc => Anchors[j] <= Anchors[k]
                /\ Anchors[j] > now_utc => Anchors[j] >= Anchors[k + 1]

C13_Witness ==
    /\ BracketReturned
    /\ Covered
    /\ Len(Anchors) >= 3
    /\ bracket[1] = At(now_utc)
    /\ now_utc = Anchors[2]

\* C14: find_prev_next_new_year returns a pair only for a now_utc the table
\* covers (first anchor <= now_utc < last anchor); outside of it the call ends
\* in an error and returns no pair.
C14_OutOfRangeSurfaced == BracketReturned => Covered

FullMoons == Column(full_moon_times)
Wanted == { FullMoons[k] : k \in { j \in 1..Len(FullMoons) :
                                     range[1] <= FullMoons[j] /\ FullMoons[j] < range[2] } }
Row(t) == CHOOSE k \in 1..Len(FullMoons) : FullMoons[k] = t

\* C15: get_full_moons_in_range(start, end) returns the entries t of the table
\* with start <= t < end, each once and in the order of the table; the list is
\* empty when there is none.
C15_MoonsInRange ==
    full_moon_times # None =>
       /\ { moons[k] : k \in 1..Len(moons) } = Wanted
       /\ Len(moons) = Cardinality(Wanted)
       /\ \A j, k \in 1..Len(moons) : j < k => Row(moons[j]) < Row(moons[k])

C15_Witness ==
    /\ full_moon_times # None
    /\ Len(moons) = 2
    /\ moons[1] = range[1]
    /\ \E k \in 1..Len(FullMoons) : FullMoons[k] = range[2]

---------------------------------------------------------------------------
(* Properties of get_multi_year_calendar_data *)

AllMoons == Column(full_moon_times)

\* the anchors whose calendar year lies in start_year..end_year + 1
Requested ==
    SelectSeq(Anchors, LAMBDA a : start_year <= YearOf(a) /\ YearOf(a) <= end_year + 1)

\* the full moons of the year cycle that starts at the k-th requested anchor
MoonsOf(k) == SelectSeq(AllMoons, LAMBDA m : Requested[k] <= m /\ m < Requested[k + 1])

\* C16: the build returns one entry per pair of consecutive requested anchors,
\* in the order of the table; the entry's year is the first anchor's year and
\* lies in start_year..end_year; its months are one record per full moon m with
\* anchor <= m < next anchor, in the order of the table, each carrying m.
C16_YearsAndMonths ==
    bpc = "done" =>
       /\ Len(result) = (IF Len(Requested) = 0 THEN 0 ELSE Len(Requested) - 1)
       /\ \A k \in 1..Len(result) :
             /\ result[k].year = YearOf(Requested[k])
             /\ result[k].year \in start_year..end_year
             /\ Len(result[k].months) = Len(MoonsOf(k))
             /\ \A j \in 1..Len(result[k].months) :
                   result[k].months[j].full_moon_utc = MoonsOf(k)[j]

C16_Witness ==
    /\ bpc = "done"
    /\ Len(result) = 2
    /\ Len(result[1].months) = 2
    /\ start_year < end_year

\* the instant whose first dawn closes month j of entry k
Closing(k, j) ==
    IF j < Len(result[k].months)
      THEN result[k].months[j + 1].full_moon_utc ELSE anchors[k + 1]

\* C17: in a returned build a month has days None exactly when the first dawn
\* after its full moon or after its closing instant is 'not_found'; every
\* requested year and every month of it is there all the same, and a month
\* whose two dawns were found has the count count_dawn_cycles returned for them.
C17_MissingDawnIsNone ==
    bpc = "done" =>
       /\ Len(result) = (IF Len(Requested) = 0 THEN 0 ELSE Len(Requested) - 1)
       /\ \A k \in 1..Len(result) :
             /\ Len(result[k].months) = Len(MoonsOf(k))
             /\ \A j \in 1..Len(result[k].months) :
                   LET mo == result[k].months[j]
                       opening == first_dawn[mo.full_moon_utc]
                       closing == first_dawn[Closing(k, j)]
                   IN /\ mo.start = opening[1]
                      /\ mo.dawn_tag = opening[2]
                      /\ (mo.days = None) <=>
                            (opening[2] = "not_found" \/ closing[2] = "not_found")
                      /\ mo.days # None =>
                            mo.days = Num(cycles[<<opening[1][1], closing[1][1]>>])

C17_Witness ==
    /\ bpc = "done"
    /\ Len(result) = 2
    /\ Len(result[1].months) = 2
    /\ result[1].months[1].days # None
    /\ result[1].months[2].days = None
    /\ result[1].months[2].start # None
    /\ Len(result[2].months) = 2
    /\ result[2].months[1].start = None
    /\ result[2].months[1].days = None
    /\ result[2].months[2].days # None

---------------------------------------------------------------------------
\* the months of every entry built so far, and those of the entry under way
BuiltMonths ==
    UNION { { y.months[j] : j \in 1..Len(y.months) } : y \in { result[k] : k \in 1..Len(result) } }
      \cup { months[j] : j \in 1..Len(months) }

\* C18: a count of count_dawn_cycles outside {29, 30} is never carried as the
\* length of a month: every month of the multi-year build has days None
\* (unknown) or one of the two month lengths.
C18_OddCountSurfaced ==
    bpc # "idle" =>
      \A m \in BuiltMonths : m.days = NotCounted \/ m.days[1] \in MonthLengths

---------------------------------------------------------------------------
\* the day numbers a grid shows
DaysShown(g) ==
    { g.grid[r][c][1] : <<r, c>> \in { p \in (1..Len(g.grid)) \X (1..Columns) : g.grid[p[1]][p[2]] # None } }

\* the full moon (or the next anchor) that closes month j of the year
NextMoon(j) == IF j + 1 <= Len(moons) THEN moons[j + 1] ELSE bracket[2][1]

\* month j of the year has a boundary whose first dawn is 'not_found'
BoundaryMissing(j) ==
    \/ first_dawn[moons[j]][1] = None
    \/ first_dawn[NextMoon(j)][1] = None

\* C19: in the single-year grid builder a month whose start or closing dawn is
\* 'not_found' is reported as unknown: its grid shows no concrete run of days.
C19_MissingDawnUnknown ==
    bpc \in {"grid", "done"} =>
      \A j \in 1..Len(months) : BoundaryMissing(j) => DaysShown(months[j]) = {}

---------------------------------------------------------------------------
\* the dawns that open and close month j of the year
MonthStart(j) == first_dawn[moons[j]][1]
MonthEnd(j) == first_dawn[NextMoon(j)][1]

\* the months of the year that have an interval [start, end)
Intervals == { j \in 1..Len(moons) : MonthStart(j) # None /\ MonthEnd(j) # None }

\* C20: where select_location answers for a year that has month intervals, with
\* now between two tabulated full moons, now before every interval gives month 1 and day 1, and now at or after the
\* end of every interval gives the last month of the year and, as the day, the
\* full day count reported for the month.
C20_Clamp ==
    (bpc = "done" /\ Intervals # {} /\ prev_full # None /\ next_full # None) =>
      /\ (\A j \in Intervals : now_utc < MonthStart(j)[1])
           => (result.monthNum = Num(1) /\ result.currentDay = Num(1))
      /\ (\A j \in Intervals : MonthEnd(j)[1] <= now_utc)
           => (result.monthNum = Num(Len(moons)) /\ result.currentDay = result.daysInMonth)

---------------------------------------------------------------------------
\* every boundary dawn of the year was found
AllResolved == Intervals = 1..Len(moons)

\* now lies in [start of the first month, end of the last month)
InsideYear ==
    /\ Len(moons) > 0
    /\ AllResolved
    /\ MonthStart(1)[1] <= now_utc
    /\ now_utc < MonthEnd(Len(moons))[1]

\* C21: with every boundary dawn of the year found and now inside the months
\* of the year, select_location answers the one month j whose start is not
\* later than now and whose successor's start is later than now.
C21_CurrentMonth ==
    (bpc = "done" /\ InsideYear) =>
      \E j \in 1..Len(moons) :
        /\ result.monthNum = Num(j)
        /\ MonthStart(j)[1] <= now_utc /\ now_utc < MonthEnd(j)[1]
        /\ \A k \in 1..Len(moons) :
             (MonthStart(k)[1] <= now_utc /\ now_utc < MonthEnd(k)[1]) => k = j

\* now exactly at the dawn that opens the second month
C21_Witness ==
    /\ bpc = "done"
    /\ InsideYear
    /\ Len(moons) >= 2
    /\ now_utc = MonthStart(2)[1]
    /\ result.monthNum = Num(2)

---------------------------------------------------------------------------
\* C22: over any sequence of calls of the lookups and builders each of the two
\* files is read at most once by the process.
C22_LoadedOnce == \A t \in Tabs : loads[t] <= 1

---------------------------------------------------------------------------
\* the tables the requests in progress have read so far
Observations == UNION { { req[r].observed[k] : k \in 1..Len(req[r].observed) } : r \in Requests }

\* the last step assigned shared state while another request was in progress
WrittenUnderway == \E r \in Requests : wrote = Num(r) /\ \E q \in Requests \ {r} : Busy(q)

\* C23: with concurrent requests and no lock, no request reads a table that is
\* unset, no shared state is assigned while another request is in progress, and
\* every request reads the rows of the file.
C23_SharedTablesQuiet ==
    /\ \A o \in Observations : o[2] # None /\ o[2] = csv[o[1]]
    /\ ~WrittenUnderway

---------------------------------------------------------------------------
\* C24: the rows of a loaded table are timestamps in strictly increasing
\* order, whatever rows the file holds.
C24_LoadedAscending ==
    full_moon_times # None =>
      LET rows == full_moon_times[1]
      IN /\ \A k \in 1..Len(rows) : rows[k] # Garbled
         /\ \A k \in 1..(Len(rows) - 1) : Parse(rows[k]) < Parse(rows[k + 1])

---------------------------------------------------------------------------
\* C25: every turn of the loop of count_dawn_cycles probes a civil date later
\* than the turn before, and the probes of a call are at most the days from
\* the date of start_dawn to the date of end_dawn, plus one.
C25_ProbesAdvance ==
    cpc # "idle" =>
      /\ \A k \in 1..(Len(cprobes) - 1) : cprobes[k][1] < cprobes[k + 1][1]
      /\ Len(cprobes) <= LocalDate(end_dawn, tzoff) - LocalDate(start_dawn, tzoff) + 1

---------------------------------------------------------------------------
\* the month about to be built follows a month built before it: in the same
\* year, or the last one of the year before
FollowsAMonth ==
    /\ bpc = "month"
    /\ bj <= Len(year_moons)
    /\ bj > 1 \/ (bi > 1 /\ Len(result[bi - 1].months) > 0)

\* C26: the months tile the years: the start dawn given to a month is the
\* closing dawn that was used for the month before it, within a year and from
\* the last month of a year to the first month of the next.
C26_MonthsTile ==
    [][FollowsAMonth => months'[bj].start = month_next_dawn]_vars

\* the first month of the second year has been built after a year of two months
C26_Witness ==
    /\ bpc = "month"
    /\ bi = 2
    /\ bj = 2
    /\ Len(result) = 1
    /\ Len(result[1].months) = 2
    /\ months[1].start # None
    /\ months[1].start = first_dawn[anchors[2]][1]

---------------------------------------------------------------------------
\* C27: with every dawn of the year found and now inside the months of the
\* year, the response of select_location is about one month: daysInMonth is
\* the day count listed for the month monthNum, and currentDay lies in
\* 1..daysInMonth.
C27_OneMonth ==
    (bpc = "done" /\ InsideYear) =>
      \E j \in 1..Len(moons) :
        /\ result.monthNum = Num(j)
        /\ result.daysInMonth = result.monthsInYear[j].days
        /\ 1 <= result.currentDay[1]
        /\ result.currentDay[1] <= result.daysInMonth[1]

---------------------------------------------------------------------------
\* the day count get_calendar_for_year handed to generate_month_grid for month j
GridDays(j) ==
    IF BoundaryMissing(j) THEN FallbackDays
    ELSE cycles[<<MonthStart(j)[1], MonthEnd(j)[1]>>]

\* the cells of a grid that show day d
CellsOf(g, d) == { p \in (1..Len(g)) \X (1..Columns) : g[p[1]][p[2]] = Num(d) }

\* the layout of a month of `days` days
Layout(g, days) ==
    /\ Len(g) = 6
    /\ \A r \in 1..6 : Len(g[r]) = Columns
    /\ \A c \in 1..Columns : g[1][c] = (IF c = Columns THEN Num(1) ELSE None)
    /\ \A r \in 2..5 : \A c \in 1..Columns : g[r][c] = Num(2 + (r - 2) * Columns + (c - 1))
    /\ g[5][Columns] = Num(ShortMonth)
    /\ g[6][1] = (IF days = LongMonth THEN Num(LongMonth) ELSE None)
    /\ \A c \in 2..Columns : g[6][c] = None
    /\ \A d \in 1..days : Cardinality(CellsOf(g, d)) = 1
    /\ Cardinality({ p \in (1..6) \X (1..Columns) : g[p[1]][p[2]] # None }) = days

\* C28: for 29 or 30 days generate_month_grid returns 6 rows of 7 cells, day 1
\* alone at the end of row 1, days 2..29 filling rows 2-5 in order, day 30
\* first in row 6, every day once and the other cells empty.
C28_GridLayout ==
    bpc \in {"grid", "done"} =>
      \A j \in 1..Len(months) :
        GridDays(j) \in MonthLengths => Layout(months[j].grid, GridDays(j))

\* a year with a counted month of 30 days and one of 29
C28_Witness ==
    /\ bpc = "done"
    /\ Len(months) >= 2
    /\ ~BoundaryMissing(1) /\ ~BoundaryMissing(2)
    /\ GridDays(1) = LongMonth
    /\ GridDays(2) = ShortMonth
    /\ DaysShown(months[1]) = 1..LongMonth
    /\ DaysShown(months[2]) = 1..ShortMonth

---------------------------------------------------------------------------
(* The moon percentages of get_sun_events_for_date *)

GetFailed(k) == k \in 1..Len(tries) /\ tries[k] = "fail"

Failures == Cardinality({ k \in 1..Len(tries) : tries[k] = "fail" })

Returned == upc = "idle" /\ json_dict # None

BothNull ==
    /\ json_dict.moon_percent.today_dawn = None
    /\ json_dict.moon_percent.tomorrow_dawn = None

EventsReported ==
    /\ json_dict.dawn = [time |-> Fmt(dawn_time), type |-> dawn_tag]
    /\ json_dict.sunrise = Fmt(sunrise_time)
    /\ json_dict.sunset = Fmt(sunset_time)
    /\ json_dict.dusk = [time |-> Fmt(dusk_time), type |-> dusk_tag]

RetryShape ==
    /\ Len(tries) <= 3
    /\ \A k \in 1..(Len(tries) - 1) : tries[k] = "fail"
    /\ slept = SubSeq(<<5, 10>>, 1, IF Failures < 2 THEN Failures ELSE 2)
    /\ upc # "caller"
    /\ Returned /\ GetFailed(3) => BothNull /\ EventsReported

\* C29: the illumination request is made at most 3 times and not again after
\* a success; the function waits 0.5 s after the first failure and 1.0 s
\* after the second; a third failure does not leave the function, which goes
\* on to return the dawn, sunrise, sunset and dusk it found with both moon
\* percentages null.
C29_ThreeAttempts == [](RetryShape) /\ ((GetFailed(3) /\ ~Returned) ~> (Returned /\ GetFailed(3) /\ BothNull))

C29_Witness ==
    /\ Returned
    /\ tries = <<"fail", "fail", "fail">>
    /\ slept = <<5, 10>>
    /\ json_dict.dawn.time # Fmt(None)
    /\ BothNull

\* the percentage the service answered for the instant of an event
AnsweredFor(t, v) ==
    /\ t # None
    /\ \E k \in 1..Len(arr) : FromIso(arr[k].iso) = t /\ v = Float(Round2(arr[k].percent))

\* C30: a reported moon_percent.today_dawn is the illumination the service
\* computed for today's dawn and a reported tomorrow_dawn the one it computed
\* for tomorrow's dawn; when today's dawn is not found and tomorrow's is,
\* today_dawn is null.
C30_OwnDawn ==
    Returned =>
        /\ json_dict.moon_percent.today_dawn # None
             => AnsweredFor(dawn_time, json_dict.moon_percent.today_dawn)
        /\ json_dict.moon_percent.tomorrow_dawn # None
             => AnsweredFor(dawn_time2, json_dict.moon_percent.tomorrow_dawn)
        /\ dawn_time = None /\ dawn_time2 # None
             => json_dict.moon_percent.today_dawn = None

\* the same with both dawns found
C30_BothFound == Returned /\ dawn_time # None /\ dawn_time2 # None => C30_OwnDawn

====
